---- MODULE Spec2Model ----
(***************************************************************************)
(* State-machine model of the goodvibes backend core:                      *)
(*   - Credential Store      (repos/SpotifyToken.repository.ts)            *)
(*   - Token Lifecycle       (services/Spotify.service.ts)                 *)
(*   - Metadata Cache        (services/TrackCache.service.ts)              *)
(*   - Collection Reconciler (services/Set.service.ts)                     *)
(* Every await of the code is one step of the calling request, so that     *)
(* concurrent requests interleave exactly at the code's suspension points. *)
(***************************************************************************)
EXTENDS Integers, Sequences, FiniteSets, TLC

(***************************************************************************)
(* Bounds of the model.                                                    *)
(***************************************************************************)
MaxOps   == 3      \* requests served per behaviour
MaxLen   == 2      \* length of the short id lists a request carries
MaxLimited == 1    \* 429 answers of the catalog per behaviour
MaxSets  == 1      \* collections created per behaviour

(***************************************************************************)
(* Program constants.                                                      *)
(***************************************************************************)
REFRESH_MARGIN_MS == 60000        \* Spotify.service.ts:87   60_000
MS_PER_S          == 1000         \* Spotify.service.ts:121  expires_in * 1000
CACHE_TTL_MS      == 604800000    \* TrackCache.service.ts:10  7 days
CHUNK_SIZE        == 50           \* TrackCache.service.ts:65  ids per bulk fetch
MAX_BACKOFF_S     == 5            \* TrackCache.service.ts:110 Math.min(retryAfter, 5)
DEFAULT_BACKOFF_S == 1            \* TrackCache.service.ts:109 ?? 1
MAX_IMAGES        == 5            \* Set.service.ts:26      slice(0, 5)

(***************************************************************************)
(* JavaScript values that are not numbers or strings.  Numbers are wrapped *)
(* so that they can be compared with the non-numbers.                      *)
(***************************************************************************)
UNDEF     == "undefined"          \* a string field that is missing
Num(n)    == <<"number", n>>
NAN       == <<"NaN">>
NULL      == <<"null">>
NOVAL     == <<"undefined">>      \* a numeric field that is missing
IsNum(v)  == Len(v) = 2
NumOf(v)  == v[2]

Procs    == {"p1", "p2"}          \* concurrently served requests
Users    == {"owner", "editor", "stranger"}
TokUsers == {"owner"}             \* users of the credential scenarios
SetIds   == 1 .. MaxSets          \* _id of the collections, in order of creation

NoTokens == [absent |-> TRUE]     \* redis key spotify_tokens:<userId> not set
NoData   == [none |-> TRUE]       \* a local that holds nothing yet

VARIABLES
  now,         \* Date.now(), in ms
  tokens,      \* Credential Store: userId -> stored record or NoTokens
  respCtr,     \* answers the upstream token endpoint has given
  issued,      \* history: (access token, expiry) pairs built from one answer
  lastWriter,  \* history: request that wrote a user's record last
  oauthState,  \* OAuth states stored for the authorization flow, by the user each names
  started,     \* requests accepted so far
  pc,          \* position of each request
  op,          \* operation each request serves
  usr,         \* acting user of each request
  tk,          \* ensureAccessToken: `tokens` (line 83)
  data,        \* refreshAccessToken / exchangeCodeForTokens: `data`
  refreshed,   \* ensureAccessToken: `refreshed`; callback: `tokens`
  merged,      \* updateTokens: `merged`
  sentRefresh, \* refresh_token of the body posted to the token endpoint
  ret,         \* outcome of the operation
  accessToken, \* the access token ensureAccessToken gave the operation
  upCalls,     \* history: upstream token calls of this invocation
  wrote,       \* history: this invocation wrote the Credential Store
  cache,       \* Metadata Cache: trackId -> TrackCache document
  limited,     \* 429 answers the catalog has given
  hIds,        \* getManyWithHydrate: `ids`
  cached,      \* getManyWithHydrate: `cached`, by trackId
  lookupAt,    \* getManyWithHydrate: Date.now() of line 53
  fresh,       \* getManyWithHydrate: `fresh`
  missing,     \* getManyWithHydrate: `missing`
  hi,          \* getManyWithHydrate: loop index `i`
  docs,        \* getManyWithHydrate: `docs` of the chunk being written
  wakeAt,      \* getManyWithHydrate: when the 429 backoff timer fires
  hres,        \* getManyWithHydrate: the array returned
  sent,        \* history: the chunks sent upstream by this invocation, and how each ended
  got,         \* history: ids the upstream answered non-null, this invocation
  sets,        \* collections: _id -> document
  userSets,    \* users: userId -> `sets` of the user document
  created,     \* collections whose creation was requested
  validated,   \* history: _id -> ids hydrate returned to an edit that persisted
  arg,         \* arguments of the collection operation
  current,     \* addSongs / replaceSongs: `current`
  next,        \* addSongs / replaceSongs: `next`
  doc,         \* createSet: `doc`
  lastAdd      \* history: the last addSongs that was answered without an error

clockVars == <<now>>
storeVars == <<tokens, respCtr, issued, lastWriter, oauthState>>
procVars  == <<started, pc, op, usr, ret, accessToken>>
ensVars   == <<tk, data, refreshed, merged, sentRefresh, upCalls, wrote>>
cacheVars == <<cache, limited>>
hydVars   == <<hIds, cached, lookupAt, fresh, missing, hi, docs, wakeAt, hres, sent, got>>
setVars   == <<sets, userSets, created, lastAdd, validated, arg, current, next, doc>>
tokVars   == <<storeVars, ensVars>>
restOfTok == <<cacheVars, hydVars, setVars, oauthState>>   \* what the token code never touches
restOfHyd == <<storeVars, ensVars, setVars>>   \* what the cache code never touches
vars      == <<clockVars, storeVars, procVars, ensVars, cacheVars, hydVars, setVars>>

(***************************************************************************)
(* Upstream token endpoint.  The n-th answer carries access token "at<n>"  *)
(* and, when it carries one, refresh token "rt<n>".                        *)
(***************************************************************************)
ExpiresInChoices == {30, 3600}    \* expires_in (seconds) the upstream may send

AccessTok(n)  == "at" \o ToString(n)
RefreshTok(n) == "rt" \o ToString(n)

\* 200 answers to grant_type=refresh_token
RefreshAnswers(n) ==
  {[access_token |-> AccessTok(n), refresh_token |-> RefreshTok(n), expires_in |-> Num(e)]
      : e \in ExpiresInChoices}
  \cup
  {[access_token |-> AccessTok(n), refresh_token |-> UNDEF, expires_in |-> Num(e)]
      : e \in ExpiresInChoices}
  \cup
  {[access_token |-> UNDEF, refresh_token |-> UNDEF, expires_in |-> NOVAL]}

\* 200 answers to grant_type=authorization_code
ExchangeAnswers(n) ==
  {[access_token |-> AccessTok(n), refresh_token |-> RefreshTok(n), expires_in |-> Num(e)]
      : e \in ExpiresInChoices}

(***************************************************************************)
(* Pure helpers of the token code.                                         *)
(***************************************************************************)
\* now + data.expires_in * 1000
ExpiresAt(t, expires_in) ==
  IF IsNum(expires_in) THEN Num(t + NumOf(expires_in) * MS_PER_S) ELSE NAN

\* JSON.parse(JSON.stringify(tokens)): NaN is written as null; an undefined
\* property is not written and reads back undefined
JsonRoundTrip(rec) ==
  [rec EXCEPT !.expires_at = IF @ = NAN THEN NULL ELSE @]

RefreshDue_atMargin(t, expires_at) ==
  IF IsNum(expires_at) THEN t >= NumOf(expires_at) - REFRESH_MARGIN_MS
  ELSE IF expires_at = NULL THEN t >= 0 - REFRESH_MARGIN_MS
  ELSE FALSE

\* Date.now() > (tokens.expires_at - 60_000); null - n is -n, undefined - n is NaN
RefreshDue(t, expires_at) ==
  IF IsNum(expires_at) THEN t > NumOf(expires_at) - REFRESH_MARGIN_MS
  ELSE IF expires_at = NULL THEN t > 0 - REFRESH_MARGIN_MS
  ELSE FALSE

RefreshedTokens_noFallback(refreshToken, d, t) ==
  [access_token  |-> d.access_token,
   refresh_token |-> d.refresh_token,
   expires_at    |-> ExpiresAt(t, d.expires_in)]

\* the object refreshAccessToken returns
RefreshedTokens(refreshToken, d, t) ==
  [access_token  |-> d.access_token,
   refresh_token |-> IF d.refresh_token = UNDEF THEN refreshToken ELSE d.refresh_token,
   expires_at    |-> ExpiresAt(t, d.expires_in)]

\* the object exchangeCodeForTokens returns
ExchangedTokens(d, t) ==
  [access_token  |-> d.access_token,
   refresh_token |-> d.refresh_token,
   expires_at    |-> ExpiresAt(t, d.expires_in)]

MergeTokens_keepsRefreshToken(cur, partial) ==
  [k \in DOMAIN cur \cup DOMAIN partial |->
     IF k \in DOMAIN partial /\ k # "refresh_token" THEN partial[k] ELSE cur[k]]

MergeTokens_accessOnly(cur, partial) ==
  [cur EXCEPT !.access_token = partial.access_token]

MergeTokens_currentWins(cur, partial) ==
  [k \in DOMAIN cur \cup DOMAIN partial |->
     IF k \in DOMAIN cur THEN cur[k] ELSE partial[k]]

\* { ...current, ...partial }
MergeTokens(cur, partial) ==
  [k \in DOMAIN cur \cup DOMAIN partial |->
     IF k \in DOMAIN partial THEN partial[k] ELSE cur[k]]

\* the (access token, expiry) pair of a token object, as redis holds it
PairOf(t) ==
  [access_token |-> t.access_token, expires_at |-> JsonRoundTrip(t).expires_at]

Thrown(msg) == [kind |-> "throw", val |-> msg]
Returned(v) == [kind |-> "return", val |-> v]
NoRet       == [kind |-> "none", val |-> UNDEF]

(***************************************************************************)
(* Initial state: nothing linked, no request in flight.                    *)
(***************************************************************************)
InitClock == now = 0
InitStore ==
  /\ tokens = [u \in Users |-> NoTokens]
  /\ respCtr = 0
  /\ issued = {}
  /\ lastWriter = [u \in Users |-> "none"]
  /\ oauthState = {}
InitProcs ==
  /\ started = 0
  /\ pc = [p \in Procs |-> "idle"]
  /\ op = [p \in Procs |-> "none"]
  /\ usr = [p \in Procs |-> "none"]
  /\ ret = [p \in Procs |-> NoRet]
  /\ accessToken = [p \in Procs |-> UNDEF]
InitCache == cache = <<>> /\ limited = 0
InitHyd ==
  /\ hIds = [p \in Procs |-> <<>>]
  /\ cached = [p \in Procs |-> <<>>]
  /\ lookupAt = [p \in Procs |-> 0]
  /\ fresh = [p \in Procs |-> <<>>]
  /\ missing = [p \in Procs |-> <<>>]
  /\ hi = [p \in Procs |-> 0]
  /\ docs = [p \in Procs |-> <<>>]
  /\ wakeAt = [p \in Procs |-> 0]
  /\ hres = [p \in Procs |-> <<>>]
  /\ sent = [p \in Procs |-> <<>>]
  /\ got = [p \in Procs |-> {}]
InitSets ==
  /\ sets = <<>>
  /\ userSets = [u \in Users |-> {}]
  /\ created = 0
  /\ lastAdd = NoData
  /\ validated = <<>>
  /\ arg = [p \in Procs |-> NoData]
  /\ current = [p \in Procs |-> <<>>]
  /\ next = [p \in Procs |-> <<>>]
  /\ doc = [p \in Procs |-> NoData]
InitEns ==
  /\ tk = [p \in Procs |-> NoData]
  /\ data = [p \in Procs |-> NoData]
  /\ refreshed = [p \in Procs |-> NoData]
  /\ merged = [p \in Procs |-> NoData]
  /\ sentRefresh = [p \in Procs |-> UNDEF]
  /\ upCalls = [p \in Procs |-> 0]
  /\ wrote = [p \in Procs |-> FALSE]

(***************************************************************************)
(* The clock moves forward through the given moments.  TokTimes are the    *)
(* moments at which a token issued at 0 for 3600 s reaches its refresh     *)
(* margin exactly, and passes it by 1 ms.                                  *)
(***************************************************************************)
TokTimes == {3600 * MS_PER_S - REFRESH_MARGIN_MS, 3600 * MS_PER_S - REFRESH_MARGIN_MS + 1}

Tick(moments) ==
  /\ \E t \in moments : t > now /\ now' = t
  /\ UNCHANGED <<storeVars, procVars, ensVars, cacheVars, hydVars, setVars>>

\* the server accepts a request of user u for operation o
Accept(p, o, u) ==
  /\ pc[p] = "idle"
  /\ started < MaxOps
  /\ started' = started + 1
  /\ op' = [op EXCEPT ![p] = o]
  /\ usr' = [usr EXCEPT ![p] = u]

(***************************************************************************)
(* SpotifyService.ensureAccessToken and what it calls.                     *)
(***************************************************************************)
\* line 84: if (!tokens) throw new Error("No tokens stored for user")
MissingTokensOutcome_returns == Returned(UNDEF)
MissingTokensOutcome == Thrown("No tokens stored for user")

EnsureOutcome_swallows(p, r) ==
  IF op[p] \in {"addSongs", "replaceSongs"}
    THEN /\ accessToken' = [accessToken EXCEPT ![p] = IF r.kind = "return" THEN r.val ELSE UNDEF]
         /\ pc' = [pc EXCEPT ![p] = "hyd_load"]
         /\ UNCHANGED ret
    ELSE /\ pc' = [pc EXCEPT ![p] = "done"]
         /\ ret' = [ret EXCEPT ![p] = r]
         /\ UNCHANGED accessToken

\* how ensureAccessToken hands its outcome to the operation that called it
\* (SetService lines 82-83 and 150-152: the token goes on to getManyWithHydrate;
\* a throw leaves addSongs and replaceSongs too)
EnsureOutcome(p, r) ==
  IF op[p] \in {"addSongs", "replaceSongs"} /\ r.kind = "return"
    THEN /\ accessToken' = [accessToken EXCEPT ![p] = r.val]
         /\ pc' = [pc EXCEPT ![p] = "hyd_load"]
         /\ UNCHANGED ret
    ELSE /\ pc' = [pc EXCEPT ![p] = "done"]
         /\ ret' = [ret EXCEPT ![p] = r]
         /\ UNCHANGED accessToken

\* a request starts ensureAccessToken(userId)
EnsureCall(p, u) ==
  /\ Accept(p, "ensure", u)
  /\ pc' = [pc EXCEPT ![p] = "ens_load"]
  /\ UNCHANGED <<restOfTok, accessToken, clockVars, storeVars, ret, ensVars>>

\* lines 83-92: getTokens, then throw, return the stored token, or refresh
EnsureLoad(p) ==
  /\ pc[p] = "ens_load"
  /\ tk' = [tk EXCEPT ![p] = tokens[usr[p]]]
  /\ IF tokens[usr[p]] = NoTokens
       THEN EnsureOutcome(p, MissingTokensOutcome)
       ELSE IF RefreshDue(now, tokens[usr[p]].expires_at)
         THEN pc' = [pc EXCEPT ![p] = "ens_refresh"] /\ UNCHANGED <<ret, accessToken>>
         ELSE EnsureOutcome(p, Returned(tokens[usr[p]].access_token))
  /\ UNCHANGED <<restOfTok, clockVars, storeVars, started, op, usr, data, refreshed, merged, sentRefresh, upCalls, wrote>>

\* line 88: the argument of this.refreshAccessToken(tokens.refresh_token)
RefreshArg_accessToken(p) == tk[p].access_token
RefreshArg(p) == tk[p].refresh_token

\* lines 95-123: refreshAccessToken, the upstream answers 200
RefreshOk(p) ==
  /\ pc[p] = "ens_refresh"
  /\ sentRefresh' = [sentRefresh EXCEPT ![p] = RefreshArg(p)]
  /\ \E d \in RefreshAnswers(respCtr + 1) :
        /\ data' = [data EXCEPT ![p] = d]
        /\ refreshed' = [refreshed EXCEPT ![p] = RefreshedTokens(RefreshArg(p), d, now)]
        /\ issued' = issued \cup {PairOf(RefreshedTokens(RefreshArg(p), d, now))}
  /\ respCtr' = respCtr + 1
  /\ upCalls' = [upCalls EXCEPT ![p] = @ + 1]
  /\ pc' = [pc EXCEPT ![p] = "ens_upd_load"]
  /\ UNCHANGED <<restOfTok, accessToken, clockVars, tokens, lastWriter, started, op, usr, ret, tk, merged, wrote>>

RefreshError_retries(p) ==
  /\ pc[p] = "ens_refresh"
  /\ sentRefresh' = [sentRefresh EXCEPT ![p] = RefreshArg(p)]
  /\ upCalls' = [upCalls EXCEPT ![p] = @ + 1]
  /\ UNCHANGED <<restOfTok, clockVars, storeVars, procVars, tk, data, refreshed, merged, wrote>>

\* lines 101-112: the upstream call fails (network error, non-2xx): axios throws
RefreshError(p) ==
  /\ pc[p] = "ens_refresh"
  /\ sentRefresh' = [sentRefresh EXCEPT ![p] = RefreshArg(p)]
  /\ upCalls' = [upCalls EXCEPT ![p] = @ + 1]
  /\ EnsureOutcome(p, Thrown("Request failed"))
  /\ UNCHANGED <<restOfTok, clockVars, storeVars, started, op, usr, tk, data, refreshed, merged, wrote>>

\* updateTokens lines 45-49: read the record again and merge
UpdateTokensLoad(p) ==
  /\ pc[p] = "ens_upd_load"
  /\ IF tokens[usr[p]] = NoTokens
       THEN pc' = [pc EXCEPT ![p] = "ens_return"] /\ UNCHANGED merged
       ELSE /\ merged' = [merged EXCEPT ![p] = MergeTokens(tokens[usr[p]], refreshed[p])]
            /\ pc' = [pc EXCEPT ![p] = "ens_upd_set"]
  /\ UNCHANGED <<restOfTok, accessToken, clockVars, storeVars, started, op, usr, ret, tk, data, refreshed, sentRefresh, upCalls, wrote>>

\* updateTokens lines 51-55: redisClient.set(key, JSON.stringify(merged))
UpdateTokensSet(p) ==
  /\ pc[p] = "ens_upd_set"
  /\ tokens' = [tokens EXCEPT ![usr[p]] = JsonRoundTrip(merged[p])]
  /\ lastWriter' = [lastWriter EXCEPT ![usr[p]] = p]
  /\ wrote' = [wrote EXCEPT ![p] = TRUE]
  /\ pc' = [pc EXCEPT ![p] = "ens_return"]
  /\ UNCHANGED <<restOfTok, accessToken, clockVars, respCtr, issued, started, op, usr, ret, tk, data, refreshed, merged, sentRefresh, upCalls>>

\* line 90: return refreshed.access_token
EnsureReturn(p) ==
  /\ pc[p] = "ens_return"
  /\ EnsureOutcome(p, Returned(refreshed[p].access_token))
  /\ UNCHANGED <<restOfTok, clockVars, storeVars, started, op, usr, ensVars>>

(***************************************************************************)
(* GET /account/authorize/spotify/callback: exchange the code, saveTokens. *)
(***************************************************************************)
CallbackCall(p, u) ==
  /\ Accept(p, "callback", u)
  /\ pc' = [pc EXCEPT ![p] = "cb_exchange"]
  /\ UNCHANGED <<restOfTok, accessToken, clockVars, storeVars, ret, ensVars>>

\* the callback arrives with ?state=<the state stored for user u>
StateCallbackCall(p, u) ==
  /\ Accept(p, "callback", "none")
  /\ arg' = [arg EXCEPT ![p] = [state |-> u]]
  /\ pc' = [pc EXCEPT ![p] = "cb_get"]
  /\ UNCHANGED <<clockVars, storeVars, ensVars, cacheVars, hydVars, ret, accessToken,
                 sets, userSets, created, lastAdd, validated, current, next, doc>>

\* part_013 line 206: const appUserId = await redisClient.get(key)
CallbackGet(p) ==
  /\ pc[p] = "cb_get"
  /\ usr' = [usr EXCEPT ![p] = IF arg[p].state \in oauthState THEN arg[p].state ELSE "none"]
  /\ pc' = [pc EXCEPT ![p] = "cb_del"]
  /\ UNCHANGED <<clockVars, storeVars, ensVars, cacheVars, hydVars, setVars, started, op, ret,
                 accessToken>>

\* part_013 lines 207-212: await redisClient.del(key), then the test of
\* what the get returned
CallbackDel(p) ==
  /\ pc[p] = "cb_del"
  /\ oauthState' = oauthState \ {arg[p].state}
  /\ IF usr[p] = "none"
       THEN /\ pc' = [pc EXCEPT ![p] = "done"]
            /\ ret' = [ret EXCEPT ![p] = Thrown("Invalid or expired state")]
       ELSE pc' = [pc EXCEPT ![p] = "cb_exchange"] /\ UNCHANGED ret
  /\ UNCHANGED <<clockVars, tokens, respCtr, issued, lastWriter, ensVars, cacheVars, hydVars,
                 setVars, started, op, usr, accessToken>>

\* exchangeCodeForTokens lines 51-80, the upstream answers 200
ExchangeOk(p) ==
  /\ pc[p] = "cb_exchange"
  /\ \E d \in ExchangeAnswers(respCtr + 1) :
        /\ data' = [data EXCEPT ![p] = d]
        /\ refreshed' = [refreshed EXCEPT ![p] = ExchangedTokens(d, now)]
        /\ issued' = issued \cup {PairOf(ExchangedTokens(d, now))}
  /\ respCtr' = respCtr + 1
  /\ upCalls' = [upCalls EXCEPT ![p] = @ + 1]
  /\ pc' = [pc EXCEPT ![p] = "cb_save"]
  /\ UNCHANGED <<restOfTok, accessToken, clockVars, tokens, lastWriter, started, op, usr, ret, tk, merged, sentRefresh, wrote>>

\* the exchange fails: the handler answers 500 and saves nothing
ExchangeError(p) ==
  /\ pc[p] = "cb_exchange"
  /\ upCalls' = [upCalls EXCEPT ![p] = @ + 1]
  /\ pc' = [pc EXCEPT ![p] = "done"]
  /\ ret' = [ret EXCEPT ![p] = Thrown("Token exchange failed")]
  /\ UNCHANGED <<restOfTok, accessToken, clockVars, storeVars, started, op, usr, tk, data, refreshed, merged, sentRefresh, wrote>>

\* saveTokens lines 20-29: redisClient.set(key, JSON.stringify(tokens))
SaveTokens(p) ==
  /\ pc[p] = "cb_save"
  /\ tokens' = [tokens EXCEPT ![usr[p]] = JsonRoundTrip(refreshed[p])]
  /\ lastWriter' = [lastWriter EXCEPT ![usr[p]] = p]
  /\ wrote' = [wrote EXCEPT ![p] = TRUE]
  /\ pc' = [pc EXCEPT ![p] = "done"]
  /\ ret' = [ret EXCEPT ![p] = Returned("Spotify linked")]
  /\ UNCHANGED <<restOfTok, accessToken, clockVars, respCtr, issued, started, op, usr, tk, data, refreshed, merged, sentRefresh, upCalls>>

(***************************************************************************)
(* The external catalog (GET /tracks?ids=...).  Track ids are written as   *)
(* positive integers n; the URI "spotify:track:<n>" of track n is written  *)
(* -n.  The catalog knows the ids that are not multiples of 3, and has     *)
(* album artwork for the even ones.                                        *)
(***************************************************************************)
TrackIds  == 1 .. (CHUNK_SIZE + 2)
Catalog   == {n \in TrackIds : n % 3 # 0}
HasArt(n) == n % 2 = 0
NullTrack == [null |-> TRUE]

\* the track object the catalog returns for a known id
Track(n) ==
  [id    |-> n,
   name  |-> "track" \o ToString(n),
   album |-> [images |-> IF HasArt(n) THEN <<"img" \o ToString(n)>> ELSE <<>>]]

\* 200 answers to a bulk fetch: one entry per id, null for an unknown id; or a
\* body without a tracks array
FetchAnswers(chunk) ==
  {[tracks |-> [i \in 1 .. Len(chunk) |->
                  IF chunk[i] \in Catalog THEN Track(chunk[i]) ELSE NullTrack]],
   [error |-> "no tracks"]}

\* retry-after headers of a 429 answer (seconds), or none
RetryAfterChoices == {NOVAL, Num(2), Num(7)}

(***************************************************************************)
(* Pure helpers of the cache code.                                         *)
(***************************************************************************)
Range(f) == {f[i] : i \in DOMAIN f}
Min(a, b) == IF a < b THEN a ELSE b

\* Array.from(new Set(ids)): first occurrences, in order
Dedupe(ids) ==
  LET F[i \in 0 .. Len(ids)] ==
        IF i = 0 THEN <<>>
        ELSE IF \E j \in 1 .. (i - 1) : ids[j] = ids[i] THEN F[i - 1]
        ELSE Append(F[i - 1], ids[i])
  IN  F[Len(ids)]

\* mapTrack (lines 24-40), the fields the model follows
MapTrack(t) ==
  [trackId |-> t.id,
   name    |-> t.name,
   album   |-> [image |-> IF Len(t.album.images) > 0 THEN t.album.images[1] ELSE UNDEF]]

\* { ...d, updatedAt }: the document as stored and as put into `fresh`
WithUpdatedAt(d, t) ==
  [trackId |-> d.trackId, name |-> d.name, album |-> d.album, updatedAt |-> t]

IsFresh_inclusive(t, c) == t - c.updatedAt <= CACHE_TTL_MS

\* line 53: Date.now() - new Date(c.updatedAt).getTime() < CACHE_TTL_MS
IsFresh(t, c) == t - c.updatedAt < CACHE_TTL_MS

\* line 52: TrackCache.find({ trackId: { $in: unique } })
FindCached(unique) ==
  [id \in {x \in Range(unique) : x \in DOMAIN cache} |-> cache[id]]

FreshOf_all(c, t) == c

\* line 53: the fresh documents among the cached ones, by trackId
FreshOf(c, t) ==
  [id \in {x \in DOMAIN c : IsFresh(t, c[x])} |-> c[id]]

\* line 56: unique.filter(id => !fresh.has(id))
MissingOf(unique, f) ==
  LET absent(id) == id \notin DOMAIN f IN SelectSeq(unique, absent)

\* lines 59 and 117: ids.map(id => fresh.get(id)).filter(Boolean)
Project(ids, f) ==
  LET has(id) == id \in DOMAIN f
      kept    == SelectSeq(ids, has)
  IN  [i \in 1 .. Len(kept) |-> f[kept[i]]]

\* line 66: missing.slice(i, i + 50)
ChunkAt(m, i) == SubSeq(m, i + 1, Min(i + CHUNK_SIZE, Len(m)))

\* lines 78-80: the non-null entries of the answer, mapped
DocsOf(d) ==
  LET raw      == IF "tracks" \in DOMAIN d THEN d.tracks ELSE <<>>
      real(t)  == t # NullTrack
      nonNull  == SelectSeq(raw, real)
  IN  [i \in 1 .. Len(nonNull) |-> MapTrack(nonNull[i])]

BackoffMs_uncapped(retryAfter) ==
  (IF IsNum(retryAfter) THEN NumOf(retryAfter) ELSE DEFAULT_BACKOFF_S) * MS_PER_S

\* lines 109-110: Math.min(Number(retry-after ?? 1), 5) * 1000
BackoffMs(retryAfter) ==
  Min(IF IsNum(retryAfter) THEN NumOf(retryAfter) ELSE DEFAULT_BACKOFF_S, MAX_BACKOFF_S)
    * MS_PER_S

\* history entry: one bulk fetch of lines 70-74 and how it ended ("ok": 200
\* with a tracks array, "nodata": 200 without one, "error", "429")
Sent(chunk, outcome) == [chunk |-> chunk, outcome |-> outcome]

\* lines 93-96: fresh.set(d.trackId, { ...d, updatedAt: now }) for every doc
FreshWith_unchanged(f, ds, t) == f

FreshWith(f, ds, t) ==
  [id \in DOMAIN f \cup {ds[i].trackId : i \in DOMAIN ds} |->
     IF \E i \in DOMAIN ds : ds[i].trackId = id
       THEN WithUpdatedAt(ds[CHOOSE i \in DOMAIN ds : ds[i].trackId = id], t)
       ELSE f[id]]

(***************************************************************************)
(* TrackCacheService.getManyWithHydrate.                                   *)
(***************************************************************************)
\* how getManyWithHydrate hands its result to the operation that called it
\* (SetService lines 83-84 and 152-153 go on with the array)
HydrateOutcome(p, result) ==
  /\ hres' = [hres EXCEPT ![p] = result]
  /\ IF op[p] = "addSongs" THEN pc' = [pc EXCEPT ![p] = "add_set"] /\ UNCHANGED ret
     ELSE IF op[p] = "replaceSongs" THEN pc' = [pc EXCEPT ![p] = "rep_set"] /\ UNCHANGED ret
     ELSE /\ pc' = [pc EXCEPT ![p] = "done"]
          /\ ret' = [ret EXCEPT ![p] = Returned("TrackCacheDoc[]")]

\* the for loop of line 65 goes on with i + 50, or ends and line 117 returns
HydrateNext(p, f) ==
  /\ fresh' = [fresh EXCEPT ![p] = f]
  /\ hi' = [hi EXCEPT ![p] = @ + CHUNK_SIZE]
  /\ IF hi[p] + CHUNK_SIZE < Len(missing[p])
       THEN pc' = [pc EXCEPT ![p] = "hyd_fetch"] /\ UNCHANGED <<hres, ret>>
       ELSE HydrateOutcome(p, Project(hIds[p], f))

\* a request starts getManyWithHydrate(accessToken, ids)
HydrateCall(p, ids) ==
  /\ Accept(p, "hydrate", "none")
  /\ hIds' = [hIds EXCEPT ![p] = ids]
  /\ accessToken' = [accessToken EXCEPT ![p] = AccessTok(0)]
  /\ pc' = [pc EXCEPT ![p] = "hyd_load"]
  /\ UNCHANGED <<restOfHyd, clockVars, cacheVars, ret, cached, lookupAt, fresh, missing,
                 hi, docs, wakeAt, hres, sent, got>>

\* lines 49-60: dedupe, read the cache, keep the fresh, find the missing
HydrateLoad(p) ==
  /\ pc[p] = "hyd_load"
  /\ LET unique == Dedupe(hIds[p])
         c      == FindCached(unique)
         f      == FreshOf(c, now)
         m      == MissingOf(unique, f)
     IN  /\ cached' = [cached EXCEPT ![p] = c]
         /\ lookupAt' = [lookupAt EXCEPT ![p] = now]
         /\ fresh' = [fresh EXCEPT ![p] = f]
         /\ missing' = [missing EXCEPT ![p] = m]
         /\ IF Len(m) = 0
              THEN HydrateOutcome(p, Project(hIds[p], f))
              ELSE pc' = [pc EXCEPT ![p] = "hyd_fetch"] /\ UNCHANGED <<hres, ret>>
  /\ UNCHANGED <<restOfHyd, accessToken, clockVars, cacheVars, started, op, usr, hIds, hi, docs, wakeAt,
                 sent, got>>

\* how a rejection inside getManyWithHydrate reaches the operation that
\* called it: addSongs awaits the call outside any try (line 83), replaceSongs
\* inside the try of lines 151-173, whose catch goes on with an empty
\* hydratedMap
HydrateThrown_uncaught(p, err) ==
  /\ pc' = [pc EXCEPT ![p] = "done"]
  /\ ret' = [ret EXCEPT ![p] = Thrown(err)]

HydrateThrown(p, err) ==
  IF op[p] = "replaceSongs"
    THEN pc' = [pc EXCEPT ![p] = "rep_set"] /\ UNCHANGED ret
    ELSE /\ pc' = [pc EXCEPT ![p] = "done"]
         /\ ret' = [ret EXCEPT ![p] = Thrown(err)]

\* line 52: TrackCache.find(...).exec() rejects (the store cannot be reached)
HydrateLoadError(p) ==
  /\ pc[p] = "hyd_load"
  /\ HydrateThrown(p, "MongoError")
  /\ UNCHANGED <<restOfHyd, accessToken, clockVars, cacheVars, started, op, usr, hydVars>>

\* lines 70-82: the bulk fetch of one chunk is answered 200; the catalog
\* answers so only to a token it knows and to ids that are track ids
HydrateFetchOk(p) ==
  /\ pc[p] = "hyd_fetch"
  /\ accessToken[p] # UNDEF
  /\ \A i \in DOMAIN ChunkAt(missing[p], hi[p]) : ChunkAt(missing[p], hi[p])[i] \in TrackIds
  /\ \E d \in FetchAnswers(ChunkAt(missing[p], hi[p])) :
       LET ds == DocsOf(d) IN
         /\ got' = [got EXCEPT ![p] = @ \cup {ds[i].trackId : i \in DOMAIN ds}]
         /\ sent' = [sent EXCEPT ![p] =
                       Append(@, Sent(ChunkAt(missing[p], hi[p]),
                                      IF "tracks" \in DOMAIN d THEN "ok" ELSE "nodata"))]
         /\ IF Len(ds) > 0
              THEN /\ docs' = [docs EXCEPT ![p] = ds]
                   /\ pc' = [pc EXCEPT ![p] = "hyd_write"]
                   /\ UNCHANGED <<fresh, hi, hres, ret>>
              ELSE /\ HydrateNext(p, fresh[p])
                   /\ UNCHANGED docs
  /\ UNCHANGED <<restOfHyd, accessToken, clockVars, cacheVars, started, op, usr, hIds, cached, lookupAt,
                 missing, wakeAt>>

HydrateWrite_memoryOnly(p) ==
  /\ pc[p] = "hyd_write"
  /\ UNCHANGED cache
  /\ HydrateNext(p, FreshWith(fresh[p], docs[p], now))
  /\ docs' = [docs EXCEPT ![p] = <<>>]
  /\ UNCHANGED <<restOfHyd, accessToken, clockVars, limited, started, op, usr, hIds, cached, lookupAt,
                 missing, wakeAt, sent, got>>

\* lines 83-97: bulkWrite upserts the docs, then they enter `fresh`
HydrateWrite(p) ==
  /\ pc[p] = "hyd_write"
  /\ cache' = [id \in DOMAIN cache \cup {docs[p][i].trackId : i \in DOMAIN docs[p]} |->
                 IF \E i \in DOMAIN docs[p] : docs[p][i].trackId = id
                   THEN WithUpdatedAt(
                          docs[p][CHOOSE i \in DOMAIN docs[p] : docs[p][i].trackId = id], now)
                   ELSE cache[id]]
  /\ HydrateNext(p, FreshWith(fresh[p], docs[p], now))
  /\ docs' = [docs EXCEPT ![p] = <<>>]
  /\ UNCHANGED <<restOfHyd, accessToken, clockVars, limited, started, op, usr, hIds, cached, lookupAt,
                 missing, wakeAt, sent, got>>

HydrateFetchError_aborts(p) ==
  /\ pc[p] = "hyd_fetch"
  /\ sent' = [sent EXCEPT ![p] = Append(@, Sent(ChunkAt(missing[p], hi[p]), "error"))]
  /\ HydrateOutcome(p, Project(hIds[p], fresh[p]))
  /\ UNCHANGED <<restOfHyd, accessToken, clockVars, cacheVars, started, op, usr, hIds, cached,
                 lookupAt, fresh, missing, hi, docs, wakeAt, got>>

\* lines 101-113: the bulk fetch fails with a status other than 429
HydrateFetchError(p) ==
  /\ pc[p] = "hyd_fetch"
  /\ sent' = [sent EXCEPT ![p] = Append(@, Sent(ChunkAt(missing[p], hi[p]), "error"))]
  /\ HydrateNext(p, fresh[p])
  /\ UNCHANGED <<restOfHyd, accessToken, clockVars, cacheVars, started, op, usr, hIds, cached, lookupAt,
                 missing, docs, wakeAt, got>>

\* lines 108-111: the bulk fetch is answered 429; a timer is set
HydrateRateLimited(p) ==
  /\ pc[p] = "hyd_fetch"
  /\ limited < MaxLimited
  /\ limited' = limited + 1
  /\ sent' = [sent EXCEPT ![p] = Append(@, Sent(ChunkAt(missing[p], hi[p]), "429"))]
  /\ \E ra \in RetryAfterChoices : wakeAt' = [wakeAt EXCEPT ![p] = now + BackoffMs(ra)]
  /\ pc' = [pc EXCEPT ![p] = "hyd_sleep"]
  /\ UNCHANGED <<restOfHyd, accessToken, clockVars, cache, started, op, usr, ret, hIds, cached, lookupAt,
                 fresh, missing, hi, docs, hres, got>>

HydrateWake_retries(p) ==
  /\ pc[p] = "hyd_sleep"
  /\ now >= wakeAt[p]
  /\ pc' = [pc EXCEPT ![p] = "hyd_fetch"]
  /\ UNCHANGED <<restOfHyd, accessToken, clockVars, cacheVars, started, op, usr, hIds, cached, lookupAt,
                 missing, docs, wakeAt, sent, got, fresh, hi, hres, ret>>

\* line 110: the timer fires, not before its time
HydrateWake(p) ==
  /\ pc[p] = "hyd_sleep"
  /\ now >= wakeAt[p]
  /\ HydrateNext(p, fresh[p])
  /\ UNCHANGED <<restOfHyd, accessToken, clockVars, cacheVars, started, op, usr, hIds, cached, lookupAt,
                 missing, docs, wakeAt, sent, got>>

\* time passes until a pending backoff timer is due
TickToTimer ==
  /\ \E p \in Procs : pc[p] = "hyd_sleep" /\ wakeAt[p] > now /\ now' = wakeAt[p]
  /\ UNCHANGED <<storeVars, procVars, ensVars, cacheVars, hydVars, setVars>>

(***************************************************************************)
(* Pure helpers of SetService.  A song is the object {id, title, image}.   *)
(***************************************************************************)
\* line 15: normalize strips "spotify:track:" (the URI of track n is -n)
Normalize(v) == IF v < 0 THEN 0 - v ELSE v

IdsOf(songs) == [i \in DOMAIN songs |-> songs[i].id]

\* lines 24-27: the first 5 non-empty images of the songs
ImagesFromSongs(songs) ==
  LET image(i) == songs[i].image
      idx      == [i \in DOMAIN songs |-> i]
      has(i)   == image(i) # UNDEF
      kept     == SelectSeq(idx, has)
  IN  [k \in 1 .. Min(Len(kept), MAX_IMAGES) |-> image(kept[k])]

\* lines 31-41: the document createSet saves
ToSave(userId, input) ==
  [name          |-> input.name,
   description   |-> input.description,
   songs         |-> input.songs,
   tags          |-> input.tags,
   collaborators |-> input.collaborators,
   images        |-> IF Len(input.images) > 0 THEN input.images
                     ELSE ImagesFromSongs(input.songs),
   createdBy     |-> userId]

IsEditor_anyone(setId, userId) == setId \in DOMAIN sets

\* Set.repository isEditor: the set exists and the user created it or
\* collaborates on it
IsEditor(setId, userId) ==
  /\ setId \in DOMAIN sets
  /\ \/ sets[setId].createdBy = userId
     \/ userId \in Range(sets[setId].collaborators)

Incoming_unfiltered(trackIds, currentIds) == Dedupe(trackIds)

\* lines 75 and 136-145: the ids to hydrate, first occurrences in order
Incoming(trackIds, currentIds) ==
  LET isNew(id) == id \notin Range(currentIds) IN SelectSeq(Dedupe(trackIds), isNew)

ToHydrateIds_all(finalOrder, currentIds) ==
  Dedupe([i \in DOMAIN finalOrder |-> Normalize(finalOrder[i])])

ToHydrateIds(finalOrder, currentIds) ==
  Incoming([i \in DOMAIN finalOrder |-> Normalize(finalOrder[i])], currentIds)

\* lines 91-106 and 153-168: the song made of a hydrated document; the
\* document has no image, albumImage or album.images
SongOf(h) ==
  [id    |-> h.trackId,
   title |-> h.name,
   image |-> IF "image" \in DOMAIN h THEN h.image
             ELSE IF "albumImage" \in DOMAIN h THEN h.albumImage
             ELSE IF "images" \in DOMAIN h.album /\ Len(h.album.images) > 0
               THEN h.album.images[1]
             ELSE UNDEF]

Skipped_none(incoming, hydrated) == <<>>

\* lines 87: incoming.filter(id => !validIds.includes(id))
Skipped(incoming, hydrated) ==
  LET invalid(id) == \A i \in DOMAIN hydrated : hydrated[i].trackId # id
  IN  SelectSeq(incoming, invalid)

NextOfAdd_prepended(cur, hydrated) == [i \in DOMAIN hydrated |-> SongOf(hydrated[i])] \o cur

\* lines 91-108: current.concat(toAdd)
NextOfAdd(cur, hydrated) == cur \o [i \in DOMAIN hydrated |-> SongOf(hydrated[i])]

\* line 134: new Map(current.map(s => [s.id, s])): the last song of an id
IdToSong(cur, id) ==
  cur[CHOOSE i \in DOMAIN cur : cur[i].id = id /\ \A j \in DOMAIN cur : cur[j].id = id => j <= i]

NextOfReplace_knownOnly(finalOrder, cur, hydrated) ==
  LET F[i \in 0 .. Len(finalOrder)] ==
        IF i = 0 THEN <<>>
        ELSE LET id == Normalize(finalOrder[i]) IN
             IF id \in Range(IdsOf(F[i - 1])) THEN F[i - 1]
             ELSE IF id \in Range(IdsOf(cur)) THEN Append(F[i - 1], IdToSong(cur, id))
             ELSE F[i - 1]
  IN  F[Len(finalOrder)]

\* lines 177-191: the requested order, without repeats and unknown ids
NextOfReplace(finalOrder, cur, hydrated) ==
  LET F[i \in 0 .. Len(finalOrder)] ==
        IF i = 0 THEN <<>>
        ELSE LET id == Normalize(finalOrder[i]) IN
             IF id \in Range(IdsOf(F[i - 1])) THEN F[i - 1]
             ELSE IF id \in Range(IdsOf(cur)) THEN Append(F[i - 1], IdToSong(cur, id))
             ELSE IF \E k \in DOMAIN hydrated : hydrated[k].trackId = id
               THEN Append(F[i - 1],
                      SongOf(hydrated[CHOOSE k \in DOMAIN hydrated : hydrated[k].trackId = id]))
             ELSE F[i - 1]
  IN  F[Len(finalOrder)]

SetSongs_keepsOthers(setId, songs) ==
  IF setId \in DOMAIN sets
    THEN LET new(sg) == \A i \in DOMAIN sets[setId].songs : sets[setId].songs[i].id # sg.id
         IN  [sets EXCEPT ![setId].songs =
                @ \o SelectSeq([i \in DOMAIN songs |->
                                  [id |-> songs[i].id, title |-> songs[i].title,
                                   image |-> songs[i].image]], new)]
    ELSE sets

SetSongs_unlessEmpty(setId, songs) ==
  IF setId \in DOMAIN sets /\ Len(songs) > 0
    THEN [sets EXCEPT ![setId].songs =
            [i \in DOMAIN songs |->
               [id |-> songs[i].id, title |-> songs[i].title, image |-> songs[i].image]]]
    ELSE sets

\* Set.repository setSongs lines 59-70: $set songs to the sanitized objects
SetSongs(setId, songs) ==
  IF setId \in DOMAIN sets
    THEN [sets EXCEPT ![setId].songs =
            [i \in DOMAIN songs |->
               [id |-> songs[i].id, title |-> songs[i].title, image |-> songs[i].image]]]
    ELSE sets

\* lines 114 and 201: findByIdAndUpdate(setId, { images: imgs })
SetImages(setId, imgs) ==
  IF setId \in DOMAIN sets THEN [sets EXCEPT ![setId].images = imgs] ELSE sets

\* a description that is null
NullText == "null"

\* part_007 lines 222-226: the patch updateSetBasic hands to the repository;
\* a field whose value is undefined is left out of the record
BasicPatch(patch) ==
  [f \in ({"name"} \cap DOMAIN patch) \cup {"description", "tags"} |->
     IF f \in DOMAIN patch THEN patch[f]
     ELSE IF f = "description" THEN NullText ELSE <<>>]

\* Set.repository updateBasic lines 73-86: $set of the fields that are not
\* undefined
UpdateBasic(setId, update) ==
  IF setId \in DOMAIN sets
    THEN LET old == sets[setId] IN
         [sets EXCEPT ![setId] =
            [f \in DOMAIN old |-> IF f \in DOMAIN update THEN update[f] ELSE old[f]]]
    ELSE sets

\* SetController.updateFull lines 324-339: the patch built from the body
FullPatch(body) ==
  [f \in ({"name", "images"} \cap DOMAIN body) \cup {"description", "tags"} |->
     IF f \in DOMAIN body THEN body[f]
     ELSE IF f = "description" THEN NullText ELSE <<>>]

\* lines 120 and 206-212: what the edits return
AddResult(cur, nxt, incoming, hydrated) ==
  [songs |-> nxt, added |-> Len(nxt) - Len(cur), skipped |-> Skipped(incoming, hydrated)]

ReplaceResult_setEquality(cur, nxt) ==
  LET gone(s) == s.id \notin Range(IdsOf(nxt)) IN
  [songs        |-> nxt,
   removedCount |-> Len(SelectSeq(cur, gone)),
   removed      |-> SelectSeq(cur, gone),
   orderChanged |-> Range(IdsOf(cur)) # Range(IdsOf(nxt)),
   length       |-> Len(nxt)]

\* lines 193-194 and 206-212
ReplaceResult(cur, nxt) ==
  LET gone(s) == s.id \notin Range(IdsOf(nxt)) IN
  [songs        |-> nxt,
   removedCount |-> Len(SelectSeq(cur, gone)),
   removed      |-> SelectSeq(cur, gone),
   orderChanged |-> IdsOf(cur) # IdsOf(nxt),
   length       |-> Len(nxt)]

(***************************************************************************)
(* SetService.createSet (POST /sets/create).                               *)
(***************************************************************************)
CreateSetCall(p, u, input) ==
  /\ Accept(p, "createSet", u)
  /\ created < MaxSets
  /\ created' = created + 1
  /\ arg' = [arg EXCEPT ![p] = input]
  /\ pc' = [pc EXCEPT ![p] = "create_save"]
  /\ UNCHANGED <<clockVars, storeVars, ensVars, cacheVars, hydVars, ret, accessToken,
                 sets, userSets, lastAdd, validated, current, next, doc>>

\* lines 43-44: new SetModel(toSave); await doc.save()
CreateSave(p) ==
  /\ pc[p] = "create_save"
  /\ sets' = Append(sets, ToSave(usr[p], arg[p]))
  /\ validated' = Append(validated, {})
  /\ doc' = [doc EXCEPT ![p] = [id |-> Len(sets) + 1, saved |-> ToSave(usr[p], arg[p])]]
  /\ pc' = [pc EXCEPT ![p] = "create_push"]
  /\ UNCHANGED <<clockVars, storeVars, ensVars, cacheVars, hydVars, started, op, usr, ret,
                 accessToken, userSets, created, lastAdd, arg, current, next>>

\* lines 47-54: pushSet ($addToSet), return doc.toObject()
CreatePush(p) ==
  /\ pc[p] = "create_push"
  /\ userSets' = [userSets EXCEPT ![usr[p]] = @ \cup {doc[p].id}]
  /\ pc' = [pc EXCEPT ![p] = "done"]
  /\ ret' = [ret EXCEPT ![p] = Returned(doc[p])]
  /\ UNCHANGED <<clockVars, storeVars, ensVars, cacheVars, hydVars, started, op, usr,
                 accessToken, sets, created, lastAdd, validated, arg, current, next, doc>>

(***************************************************************************)
(* SetService.addSongs (POST /sets/:setId/songs) and replaceSongs          *)
(* (PATCH /sets/:setId/songs).                                             *)
(***************************************************************************)
AddSongsCall(p, u, setId, trackIds) ==
  /\ Accept(p, "addSongs", u)
  /\ arg' = [arg EXCEPT ![p] = [setId |-> setId, ids |-> trackIds]]
  /\ pc' = [pc EXCEPT ![p] = "edit_auth"]
  /\ UNCHANGED <<clockVars, storeVars, ensVars, cacheVars, hydVars, ret, accessToken,
                 sets, userSets, created, lastAdd, validated, current, next, doc>>

ReplaceSongsCall(p, u, setId, finalOrder) ==
  /\ Accept(p, "replaceSongs", u)
  /\ arg' = [arg EXCEPT ![p] = [setId |-> setId, ids |-> finalOrder]]
  /\ pc' = [pc EXCEPT ![p] = "edit_auth"]
  /\ UNCHANGED <<clockVars, storeVars, ensVars, cacheVars, hydVars, ret, accessToken,
                 sets, userSets, created, lastAdd, validated, current, next, doc>>

\* lines 57-60: assertCanEdit
AssertCanEdit(p) ==
  /\ pc[p] = "edit_auth"
  /\ IF IsEditor(arg[p].setId, usr[p])
       THEN pc' = [pc EXCEPT ![p] = "edit_find"] /\ UNCHANGED ret
       ELSE /\ pc' = [pc EXCEPT ![p] = "done"]
            /\ ret' = [ret EXCEPT ![p] = Thrown("Forbidden")]
  /\ UNCHANGED <<clockVars, storeVars, ensVars, cacheVars, hydVars, setVars, started, op, usr,
                 accessToken>>

AddFind_alwaysHydrates(p) ==
  /\ pc[p] = "edit_find" /\ op[p] = "addSongs"
  /\ IF arg[p].setId \notin DOMAIN sets
       THEN /\ pc' = [pc EXCEPT ![p] = "done"]
            /\ ret' = [ret EXCEPT ![p] = Thrown("Set not found")]
            /\ UNCHANGED <<current, hIds>>
       ELSE LET cur      == sets[arg[p].setId].songs
                incoming == Incoming(arg[p].ids, IdsOf(cur))
            IN  /\ current' = [current EXCEPT ![p] = cur]
                /\ hIds' = [hIds EXCEPT ![p] = incoming]
                /\ pc' = [pc EXCEPT ![p] = "ens_load"] /\ UNCHANGED ret
  /\ UNCHANGED <<clockVars, storeVars, ensVars, cacheVars, started, op, usr, accessToken,
                 cached, lookupAt, fresh, missing, hi, docs, wakeAt, hres, sent, got,
                 sets, userSets, created, lastAdd, validated, arg, next, doc>>

\* addSongs lines 65-79: read the set, find the incoming ids
AddFind(p) ==
  /\ pc[p] = "edit_find" /\ op[p] = "addSongs"
  /\ IF arg[p].setId \notin DOMAIN sets
       THEN /\ pc' = [pc EXCEPT ![p] = "done"]
            /\ ret' = [ret EXCEPT ![p] = Thrown("Set not found")]
            /\ UNCHANGED <<current, hIds>>
       ELSE LET cur      == sets[arg[p].setId].songs
                incoming == Incoming(arg[p].ids, IdsOf(cur))
            IN  /\ current' = [current EXCEPT ![p] = cur]
                /\ hIds' = [hIds EXCEPT ![p] = incoming]
                /\ IF Len(incoming) = 0
                     THEN /\ pc' = [pc EXCEPT ![p] = "done"]
                          /\ ret' = [ret EXCEPT ![p] = Returned(AddResult(cur, cur, <<>>, <<>>))]
                     ELSE pc' = [pc EXCEPT ![p] = "ens_load"] /\ UNCHANGED ret
  /\ UNCHANGED <<clockVars, storeVars, ensVars, cacheVars, started, op, usr, accessToken,
                 cached, lookupAt, fresh, missing, hi, docs, wakeAt, hres, sent, got,
                 sets, userSets, created, lastAdd, validated, arg, next, doc>>

\* addSongs lines 84-113: append the hydrated songs and persist
AddPersist(p) ==
  /\ pc[p] = "add_set"
  /\ LET nxt == NextOfAdd(current[p], hres[p]) IN
       /\ next' = [next EXCEPT ![p] = nxt]
       /\ sets' = SetSongs(arg[p].setId, nxt)
       /\ validated' = [validated EXCEPT ![arg[p].setId] = @ \cup {hres[p][i].trackId : i \in DOMAIN hres[p]}]
       /\ IF Len(ImagesFromSongs(nxt)) > 0
            THEN pc' = [pc EXCEPT ![p] = "add_images"] /\ UNCHANGED ret
            ELSE /\ pc' = [pc EXCEPT ![p] = "done"]
                 /\ ret' = [ret EXCEPT ![p] = Returned(AddResult(current[p], nxt, hIds[p], hres[p]))]
  /\ UNCHANGED <<clockVars, storeVars, ensVars, cacheVars, hydVars, started, op, usr,
                 accessToken, userSets, created, lastAdd, arg, current, doc>>

\* addSongs lines 114-120: the images follow the songs
AddImages(p) ==
  /\ pc[p] = "add_images"
  /\ sets' = SetImages(arg[p].setId, ImagesFromSongs(next[p]))
  /\ pc' = [pc EXCEPT ![p] = "done"]
  /\ ret' = [ret EXCEPT ![p] = Returned(AddResult(current[p], next[p], hIds[p], hres[p]))]
  /\ UNCHANGED <<clockVars, storeVars, ensVars, cacheVars, hydVars, started, op, usr,
                 accessToken, userSets, created, lastAdd, validated, arg, current, next, doc>>

ReplaceFind_clearsFirst(p) ==
  /\ pc[p] = "edit_find" /\ op[p] = "replaceSongs"
  /\ IF arg[p].setId \notin DOMAIN sets
       THEN /\ pc' = [pc EXCEPT ![p] = "done"]
            /\ ret' = [ret EXCEPT ![p] = Thrown("Set not found")]
            /\ UNCHANGED <<current, hIds, sets>>
       ELSE LET cur        == sets[arg[p].setId].songs
                toHydrate  == ToHydrateIds(arg[p].ids, IdsOf(cur))
            IN  /\ current' = [current EXCEPT ![p] = cur]
                /\ hIds' = [hIds EXCEPT ![p] = toHydrate]
                /\ sets' = SetSongs(arg[p].setId, <<>>)
                /\ pc' = [pc EXCEPT ![p] = IF Len(toHydrate) > 0 THEN "ens_load" ELSE "rep_set"]
                /\ UNCHANGED ret
  /\ UNCHANGED <<clockVars, storeVars, ensVars, cacheVars, started, op, usr, accessToken,
                 cached, lookupAt, fresh, missing, hi, docs, wakeAt, hres, sent, got,
                 userSets, created, lastAdd, validated, arg, next, doc>>

\* replaceSongs lines 127-149: read the set, find the ids to hydrate
ReplaceFind(p) ==
  /\ pc[p] = "edit_find" /\ op[p] = "replaceSongs"
  /\ IF arg[p].setId \notin DOMAIN sets
       THEN /\ pc' = [pc EXCEPT ![p] = "done"]
            /\ ret' = [ret EXCEPT ![p] = Thrown("Set not found")]
            /\ UNCHANGED <<current, hIds>>
       ELSE LET cur        == sets[arg[p].setId].songs
                toHydrate  == ToHydrateIds(arg[p].ids, IdsOf(cur))
            IN  /\ current' = [current EXCEPT ![p] = cur]
                /\ hIds' = [hIds EXCEPT ![p] = toHydrate]
                /\ pc' = [pc EXCEPT ![p] = IF Len(toHydrate) > 0 THEN "ens_load" ELSE "rep_set"]
                /\ UNCHANGED ret
  /\ UNCHANGED <<clockVars, storeVars, ensVars, cacheVars, started, op, usr, accessToken,
                 cached, lookupAt, fresh, missing, hi, docs, wakeAt, hres, sent, got,
                 sets, userSets, created, lastAdd, validated, arg, next, doc>>

\* replaceSongs lines 176-197: build the next list and persist it
ReplacePersist(p) ==
  /\ pc[p] = "rep_set"
  /\ LET nxt == NextOfReplace(arg[p].ids, current[p], hres[p]) IN
       /\ next' = [next EXCEPT ![p] = nxt]
       /\ sets' = SetSongs(arg[p].setId, nxt)
       /\ validated' = [validated EXCEPT ![arg[p].setId] = @ \cup {hres[p][i].trackId : i \in DOMAIN hres[p]}]
  /\ pc' = [pc EXCEPT ![p] = "rep_images"]
  /\ UNCHANGED <<clockVars, storeVars, ensVars, cacheVars, hydVars, started, op, usr, ret,
                 accessToken, userSets, created, lastAdd, arg, current, doc>>

\* replaceSongs lines 199-212: the images follow the songs, whatever they are
ReplaceImages(p) ==
  /\ pc[p] = "rep_images"
  /\ sets' = SetImages(arg[p].setId, ImagesFromSongs(next[p]))
  /\ IF "patch" \in DOMAIN arg[p]
       THEN pc' = [pc EXCEPT ![p] = "full_load"] /\ UNCHANGED ret
       ELSE /\ pc' = [pc EXCEPT ![p] = "done"]
            /\ ret' = [ret EXCEPT ![p] = Returned(ReplaceResult(current[p], next[p]))]
  /\ UNCHANGED <<clockVars, storeVars, ensVars, cacheVars, hydVars, started, op, usr,
                 accessToken, userSets, created, lastAdd, validated, arg, current, next, doc>>

(***************************************************************************)
(* SetService.updateSetBasic (PATCH /sets/:setId) and                      *)
(* SetController.updateFull (PATCH /sets/:setId/full), which calls         *)
(* updateSetBasic and then replaceSongs.  `op` is the service operation a  *)
(* request is in; a request of updateFull carries the ids for replaceSongs *)
(* in its arguments while in updateSetBasic, and the patch it applied      *)
(* while in replaceSongs.                                                  *)
(***************************************************************************)
UpdateSetBasicCall(p, u, setId, patch) ==
  /\ Accept(p, "updateSetBasic", u)
  /\ arg' = [arg EXCEPT ![p] = [setId |-> setId, patch |-> patch]]
  /\ pc' = [pc EXCEPT ![p] = "edit_auth"]
  /\ UNCHANGED <<clockVars, storeVars, ensVars, cacheVars, hydVars, ret, accessToken,
                 sets, userSets, created, lastAdd, validated, current, next, doc>>

\* part_012 lines 316-339: the body is parsed and updateSetBasic is called
UpdateFullCall(p, u, setId, body) ==
  /\ Accept(p, "updateSetBasic", u)
  /\ arg' = [arg EXCEPT ![p] =
               [setId |-> setId, patch |-> FullPatch(body), ids |-> body.songs]]
  /\ pc' = [pc EXCEPT ![p] = "edit_auth"]
  /\ UNCHANGED <<clockVars, storeVars, ensVars, cacheVars, hydVars, ret, accessToken,
                 sets, userSets, created, lastAdd, validated, current, next, doc>>

\* part_007 lines 218-219: const exists = await this.set.findById(setId)
UpdateFind(p) ==
  /\ pc[p] = "edit_find" /\ op[p] = "updateSetBasic"
  /\ IF arg[p].setId \notin DOMAIN sets
       THEN /\ pc' = [pc EXCEPT ![p] = "done"]
            /\ ret' = [ret EXCEPT ![p] = Thrown("Set not found")]
            /\ UNCHANGED doc
       ELSE /\ doc' = [doc EXCEPT ![p] = [exists |-> sets[arg[p].setId], updated |-> NoData]]
            /\ pc' = [pc EXCEPT ![p] = "upd_set"]
            /\ UNCHANGED ret
  /\ UNCHANGED <<clockVars, storeVars, ensVars, cacheVars, hydVars, started, op, usr,
                 accessToken, sets, userSets, created, lastAdd, validated, arg, current, next>>

\* how updateSetBasic ends: it returns `updated` (line 241), to the client
\* or to updateFull, which goes on with replaceSongs (part_012 lines 341-345)
UpdateOutcome(p, updated) ==
  IF "ids" \in DOMAIN arg[p]
    THEN /\ op' = [op EXCEPT ![p] = "replaceSongs"]
         /\ arg' = [arg EXCEPT ![p] =
                      [setId |-> arg[p].setId, ids |-> arg[p].ids, patch |-> arg[p].patch]]
         /\ pc' = [pc EXCEPT ![p] = "edit_auth"]
         /\ UNCHANGED ret
    ELSE /\ pc' = [pc EXCEPT ![p] = "done"]
         /\ ret' = [ret EXCEPT ![p] = Returned(updated)]
         /\ UNCHANGED <<op, arg>>

\* part_007 lines 221-227: the repository update
UpdateBasicWrite(p) ==
  /\ pc[p] = "upd_set"
  /\ sets' = UpdateBasic(arg[p].setId, BasicPatch(arg[p].patch))
  /\ IF arg[p].setId \notin DOMAIN sets
       THEN /\ pc' = [pc EXCEPT ![p] = "done"]
            /\ ret' = [ret EXCEPT ![p] = Thrown("Set not found")]
            /\ UNCHANGED <<op, arg, doc>>
       ELSE /\ doc' = [doc EXCEPT ![p].updated = sets'[arg[p].setId]]
            /\ IF "images" \in DOMAIN arg[p].patch
                 THEN pc' = [pc EXCEPT ![p] = "upd_images"] /\ UNCHANGED <<op, arg, ret>>
                 ELSE UpdateOutcome(p, sets'[arg[p].setId])
  /\ UNCHANGED <<clockVars, storeVars, ensVars, cacheVars, hydVars, started, usr,
                 accessToken, userSets, created, lastAdd, validated, current, next>>

\* part_007 lines 230-236: the images of the patch are persisted
UpdateImages(p) ==
  /\ pc[p] = "upd_images"
  /\ sets' = SetImages(arg[p].setId, arg[p].patch.images)
  /\ UpdateOutcome(p, doc[p].updated)
  /\ UNCHANGED <<clockVars, storeVars, ensVars, cacheVars, hydVars, started, usr,
                 accessToken, userSets, created, lastAdd, validated, current, next, doc>>

\* part_012 lines 347-358: updateFull loads the set again and answers with it
FullLoad(p) ==
  /\ pc[p] = "full_load"
  /\ pc' = [pc EXCEPT ![p] = "done"]
  /\ ret' = [ret EXCEPT ![p] =
               IF arg[p].setId \in DOMAIN sets THEN Returned(sets[arg[p].setId])
               ELSE Returned("Set not found after update")]
  /\ UNCHANGED <<clockVars, storeVars, ensVars, cacheVars, hydVars, setVars, started, op, usr,
                 accessToken>>

\* the request has been answered; the server forgets it
Finish(p) ==
  /\ pc[p] = "done"
  /\ pc' = [pc EXCEPT ![p] = "idle"]
  /\ op' = [op EXCEPT ![p] = "none"]
  /\ usr' = [usr EXCEPT ![p] = "none"]
  /\ ret' = [ret EXCEPT ![p] = NoRet]
  /\ accessToken' = [accessToken EXCEPT ![p] = UNDEF]
  /\ UNCHANGED started
  /\ tk' = [tk EXCEPT ![p] = NoData]
  /\ data' = [data EXCEPT ![p] = NoData]
  /\ refreshed' = [refreshed EXCEPT ![p] = NoData]
  /\ merged' = [merged EXCEPT ![p] = NoData]
  /\ sentRefresh' = [sentRefresh EXCEPT ![p] = UNDEF]
  /\ upCalls' = [upCalls EXCEPT ![p] = 0]
  /\ wrote' = [wrote EXCEPT ![p] = FALSE]
  /\ hIds' = [hIds EXCEPT ![p] = <<>>]
  /\ cached' = [cached EXCEPT ![p] = <<>>]
  /\ lookupAt' = [lookupAt EXCEPT ![p] = 0]
  /\ fresh' = [fresh EXCEPT ![p] = <<>>]
  /\ missing' = [missing EXCEPT ![p] = <<>>]
  /\ hi' = [hi EXCEPT ![p] = 0]
  /\ docs' = [docs EXCEPT ![p] = <<>>]
  /\ wakeAt' = [wakeAt EXCEPT ![p] = 0]
  /\ hres' = [hres EXCEPT ![p] = <<>>]
  /\ sent' = [sent EXCEPT ![p] = <<>>]
  /\ got' = [got EXCEPT ![p] = {}]
  /\ arg' = [arg EXCEPT ![p] = NoData]
  /\ current' = [current EXCEPT ![p] = <<>>]
  /\ next' = [next EXCEPT ![p] = <<>>]
  /\ doc' = [doc EXCEPT ![p] = NoData]
  /\ lastAdd' = IF op[p] = "addSongs" /\ ret[p].kind = "return"
                  THEN [setId    |-> arg[p].setId,
                        trackIds |-> arg[p].ids,
                        before   |-> current[p],
                        hydrated |-> hres[p],
                        result   |-> ret[p].val]
                  ELSE lastAdd
  /\ UNCHANGED <<clockVars, storeVars, cacheVars, sets, userSets, created, validated>>

(***************************************************************************)
(* SpecTok: the Credential Store under concurrent ensureAccessToken calls  *)
(* and OAuth callbacks of one owner.                                       *)
(***************************************************************************)
InitTok == InitClock /\ InitStore /\ InitProcs /\ InitEns /\ InitCache /\ InitHyd /\ InitSets

NextTok ==
  \/ Tick(TokTimes)
  \/ \E p \in Procs, u \in TokUsers : EnsureCall(p, u)
  \/ \E p \in Procs : EnsureLoad(p)
  \/ \E p \in Procs : RefreshOk(p)
  \/ \E p \in Procs : RefreshError(p)
  \/ \E p \in Procs : UpdateTokensLoad(p)
  \/ \E p \in Procs : UpdateTokensSet(p)
  \/ \E p \in Procs : EnsureReturn(p)
  \/ \E p \in Procs, u \in TokUsers : CallbackCall(p, u)
  \/ \E p \in Procs : ExchangeOk(p)
  \/ \E p \in Procs : ExchangeError(p)
  \/ \E p \in Procs : SaveTokens(p)
  \/ \E p \in Procs : Finish(p)

SpecTok == InitTok /\ [][NextTok]_vars

(***************************************************************************)
(* SpecCache: the Metadata Cache under successive getManyWithHydrate       *)
(* calls.  CacheTimes are the moments at which a document written at 0 is  *)
(* 1 ms short of the TTL, and exactly TTL old.                             *)
(***************************************************************************)
CacheTimes == {CACHE_TTL_MS - 1, CACHE_TTL_MS}

SmallIds == {1, 2, 3}
RECURSIVE SeqsUpTo(_, _)
SeqsUpTo(S, n) ==
  IF n = 0 THEN {<<>>}
  ELSE LET shorter == SeqsUpTo(S, n - 1)
       IN  shorter \cup {Append(q, x) : q \in shorter, x \in S}

\* the id lists a caller passes: every short list, and the list of all track
\* ids, which takes two bulk fetches even when one of its ids is fresh
HydrateInputs ==
  SeqsUpTo(SmallIds, MaxLen) \cup {[i \in 1 .. (CHUNK_SIZE + 2) |-> i]}

\* One request at a time calls the cache here; concurrent calls are made by
\* the concurrent collection edits of Spec.
CacheProcs == {"p1"}

InitCacheSpec == InitTok

NextCache ==
  \/ Tick(CacheTimes)
  \/ TickToTimer
  \/ \E p \in CacheProcs, ids \in HydrateInputs : HydrateCall(p, ids)
  \/ \E p \in CacheProcs : HydrateLoad(p)
  \/ \E p \in CacheProcs : HydrateLoadError(p)
  \/ \E p \in CacheProcs : HydrateFetchOk(p)
  \/ \E p \in CacheProcs : HydrateWrite(p)
  \/ \E p \in CacheProcs : HydrateFetchError(p)
  \/ \E p \in CacheProcs : HydrateRateLimited(p)
  \/ \E p \in CacheProcs : HydrateWake(p)
  \/ \E p \in CacheProcs : Finish(p)

SpecCache == InitCacheSpec /\ [][NextCache]_vars

\* The same calls with three id lists only: one id; an id twice and an id the
\* catalog does not have; and the list of all track ids, whose two groups let
\* a 429 answer be followed by another group.
LimitInputs == {<<1>>, <<1, 1, 3>>, [i \in 1 .. (CHUNK_SIZE + 2) |-> i]}

NextLimit ==
  \/ Tick(CacheTimes)
  \/ TickToTimer
  \/ \E p \in CacheProcs, ids \in LimitInputs : HydrateCall(p, ids)
  \/ \E p \in CacheProcs : HydrateLoad(p)
  \/ \E p \in CacheProcs : HydrateLoadError(p)
  \/ \E p \in CacheProcs : HydrateFetchOk(p)
  \/ \E p \in CacheProcs : HydrateWrite(p)
  \/ \E p \in CacheProcs : HydrateFetchError(p)
  \/ \E p \in CacheProcs : HydrateRateLimited(p)
  \/ \E p \in CacheProcs : HydrateWake(p)
  \/ \E p \in CacheProcs : Finish(p)

SpecLimit == InitCacheSpec /\ [][NextLimit]_vars

(***************************************************************************)
(* Spec: the collections under concurrent createSet, addSongs and          *)
(* replaceSongs requests of the owner, an editor and a stranger, with the  *)
(* OAuth callback that links the owner's account.                          *)
(***************************************************************************)
Song(n, img) == [id |-> n, title |-> "song" \o ToString(n), image |-> img]

\* bodies of POST /sets/create that pass CreateSetSchema (at least one song):
\* a known track once or repeated, or an id the catalog does not know; the
\* editor collaborates; cover images are given or not
CreateInputs ==
  {[songs |-> ss, name |-> "mix", description |-> "about", tags |-> <<"rock">>,
    collaborators |-> <<"editor">>, images |-> im] :
     ss \in (SeqsUpTo({Song(1, "art1")}, MaxLen) \ {<<>>}) \cup {<<Song(3, UNDEF)>>},
     im \in {<<>>, <<"cover">>}}

\* bodies of POST /sets/:setId/songs that pass AddSongsSchema (at least one
\* id): a listed and a new id; a new id twice and an unknown one
AddInputs == {<<1, 2>>, <<2, 2, 3>>}

\* bodies of PATCH /sets/:setId/songs: none; a new id and the URI of a listed
\* one; the URI and the id of a listed one and an unknown id
ReplaceInputs == {<<>>, <<2, 0 - 1>>, <<0 - 1, 1, 3>>}

Init == InitClock /\ InitStore /\ InitProcs /\ InitEns /\ InitCache /\ InitHyd /\ InitSets

Next ==
  \/ Tick(TokTimes)
  \/ TickToTimer
  \/ \E p \in Procs, u \in TokUsers : CallbackCall(p, u)
  \/ \E p \in Procs : ExchangeOk(p)
  \/ \E p \in Procs : ExchangeError(p)
  \/ \E p \in Procs : SaveTokens(p)
  \/ \E p \in Procs, input \in CreateInputs : CreateSetCall(p, "owner", input)
  \/ \E p \in Procs : CreateSave(p)
  \/ \E p \in Procs : CreatePush(p)
  \/ \E p \in Procs, u \in Users, s \in SetIds, ids \in AddInputs : AddSongsCall(p, u, s, ids)
  \/ \E p \in Procs, u \in Users, s \in SetIds, ids \in ReplaceInputs :
        ReplaceSongsCall(p, u, s, ids)
  \/ \E p \in Procs : AssertCanEdit(p)
  \/ \E p \in Procs : AddFind(p)
  \/ \E p \in Procs : AddPersist(p)
  \/ \E p \in Procs : AddImages(p)
  \/ \E p \in Procs : ReplaceFind(p)
  \/ \E p \in Procs : ReplacePersist(p)
  \/ \E p \in Procs : ReplaceImages(p)
  \/ \E p \in Procs : EnsureLoad(p)
  \/ \E p \in Procs : RefreshOk(p)
  \/ \E p \in Procs : RefreshError(p)
  \/ \E p \in Procs : UpdateTokensLoad(p)
  \/ \E p \in Procs : UpdateTokensSet(p)
  \/ \E p \in Procs : EnsureReturn(p)
  \/ \E p \in Procs : HydrateLoad(p)
  \/ \E p \in Procs : HydrateLoadError(p)
  \/ \E p \in Procs : HydrateFetchOk(p)
  \/ \E p \in Procs : HydrateWrite(p)
  \/ \E p \in Procs : HydrateFetchError(p)
  \/ \E p \in Procs : HydrateRateLimited(p)
  \/ \E p \in Procs : HydrateWake(p)
  \/ \E p \in Procs : Finish(p)

Spec == Init /\ [][Next]_vars

(***************************************************************************)
(* SpecReplace: createSet and replaceSongs requests served one at a time,  *)
(* with the callback that links the owner's account.  What one             *)
(* replaceSongs does to the list it read is followed here for more         *)
(* request bodies than the interleavings of Spec allow.                    *)
(***************************************************************************)
SeqProcs == {"p1"}

\* bodies of POST /sets/create: as in Spec, or two songs of different ids
SeqCreateInputs ==
  CreateInputs \cup
  {[songs |-> <<Song(1, "art1"), Song(3, UNDEF)>>, name |-> "mix", description |-> "about", tags |-> <<"rock">>,
    collaborators |-> <<"editor">>,
    images |-> <<>>]}

\* bodies of PATCH /sets/:setId/songs: as in Spec; a listed id once and
\* twice; two listed ids in the other order
SeqReplaceInputs == ReplaceInputs \cup {<<1>>, <<1, 1>>, <<3, 0 - 1>>}

NextReplace ==
  \/ Tick(TokTimes)
  \/ TickToTimer
  \/ \E p \in SeqProcs, u \in TokUsers : CallbackCall(p, u)
  \/ \E p \in SeqProcs : ExchangeOk(p)
  \/ \E p \in SeqProcs : ExchangeError(p)
  \/ \E p \in SeqProcs : SaveTokens(p)
  \/ \E p \in SeqProcs, input \in SeqCreateInputs : CreateSetCall(p, "owner", input)
  \/ \E p \in SeqProcs : CreateSave(p)
  \/ \E p \in SeqProcs : CreatePush(p)
  \/ \E p \in SeqProcs, u \in Users, s \in SetIds, ids \in SeqReplaceInputs :
        ReplaceSongsCall(p, u, s, ids)
  \/ \E p \in SeqProcs : AssertCanEdit(p)
  \/ \E p \in SeqProcs : ReplaceFind(p)
  \/ \E p \in SeqProcs : ReplacePersist(p)
  \/ \E p \in SeqProcs : ReplaceImages(p)
  \/ \E p \in SeqProcs : EnsureLoad(p)
  \/ \E p \in SeqProcs : RefreshOk(p)
  \/ \E p \in SeqProcs : RefreshError(p)
  \/ \E p \in SeqProcs : UpdateTokensLoad(p)
  \/ \E p \in SeqProcs : UpdateTokensSet(p)
  \/ \E p \in SeqProcs : EnsureReturn(p)
  \/ \E p \in SeqProcs : HydrateLoad(p)
  \/ \E p \in SeqProcs : HydrateLoadError(p)
  \/ \E p \in SeqProcs : HydrateFetchOk(p)
  \/ \E p \in SeqProcs : HydrateWrite(p)
  \/ \E p \in SeqProcs : HydrateFetchError(p)
  \/ \E p \in SeqProcs : HydrateRateLimited(p)
  \/ \E p \in SeqProcs : HydrateWake(p)
  \/ \E p \in SeqProcs : Finish(p)

SpecReplace == Init /\ [][NextReplace]_vars

(***************************************************************************)
(* SpecAdd: createSet and addSongs requests served one at a time, from the *)
(* state a callback at time 0 leaves: the owner's account is linked.  Time *)
(* passes only while a rate-limited fetch waits; the token of the 30 s     *)
(* answer is due for refresh from the start.                               *)
(***************************************************************************)
\* what saveTokens stored for the owner, and what the exchange left behind
InitLinked ==
  \E d \in ExchangeAnswers(1) :
    /\ tokens = [u \in Users |->
                   IF u = "owner" THEN JsonRoundTrip(ExchangedTokens(d, 0)) ELSE NoTokens]
    /\ respCtr = 1
    /\ issued = {PairOf(ExchangedTokens(d, 0))}
    /\ lastWriter = [u \in Users |-> IF u = "owner" THEN "p1" ELSE "none"]
    /\ oauthState = {}

InitAdd ==
  InitClock /\ InitLinked /\ InitProcs /\ InitCache /\ InitHyd /\ InitSets /\ InitEns

\* bodies of POST /sets/:setId/songs: as in Spec, or ids none of those has
SeqAddInputs == AddInputs \cup {<<4, 5>>}

\* bodies of POST /sets/create: a known track, once or twice
AddCreateInputs ==
  {[songs |-> ss, name |-> "mix", description |-> "about", tags |-> <<"rock">>,
    collaborators |-> <<"editor">>, images |-> <<>>] :
     ss \in {<<Song(1, "art1")>>, <<Song(1, "art1"), Song(1, "art1")>>}}

NextAdd ==
  \/ TickToTimer
  \/ \E p \in SeqProcs, input \in AddCreateInputs : CreateSetCall(p, "owner", input)
  \/ \E p \in SeqProcs : CreateSave(p)
  \/ \E p \in SeqProcs : CreatePush(p)
  \/ \E p \in SeqProcs, u \in Users, s \in SetIds, ids \in SeqAddInputs :
        AddSongsCall(p, u, s, ids)
  \/ \E p \in SeqProcs : AssertCanEdit(p)
  \/ \E p \in SeqProcs : AddFind(p)
  \/ \E p \in SeqProcs : AddPersist(p)
  \/ \E p \in SeqProcs : AddImages(p)
  \/ \E p \in SeqProcs : EnsureLoad(p)
  \/ \E p \in SeqProcs : RefreshOk(p)
  \/ \E p \in SeqProcs : RefreshError(p)
  \/ \E p \in SeqProcs : UpdateTokensLoad(p)
  \/ \E p \in SeqProcs : UpdateTokensSet(p)
  \/ \E p \in SeqProcs : EnsureReturn(p)
  \/ \E p \in SeqProcs : HydrateLoad(p)
  \/ \E p \in SeqProcs : HydrateLoadError(p)
  \/ \E p \in SeqProcs : HydrateFetchOk(p)
  \/ \E p \in SeqProcs : HydrateWrite(p)
  \/ \E p \in SeqProcs : HydrateFetchError(p)
  \/ \E p \in SeqProcs : HydrateRateLimited(p)
  \/ \E p \in SeqProcs : HydrateWake(p)
  \/ \E p \in SeqProcs : Finish(p)

SpecAdd == InitAdd /\ [][NextAdd]_vars

(***************************************************************************)
(* SpecEdits: createSet, addSongs and replaceSongs requests served one at  *)
(* a time by the owner, the editor (who has linked no account) and a       *)
(* stranger, the owner's account linked as in SpecAdd.  The catalog        *)
(* answers or fails; it does not rate limit, and no time passes.           *)
(***************************************************************************)
\* bodies of POST /sets/create: a song with artwork; a song without artwork
\* under a given cover; more songs with artwork than a collection has images
EditCreateInputs ==
  {[songs |-> <<Song(1, "art1")>>, name |-> "mix", description |-> "about", tags |-> <<"rock">>,
    collaborators |-> <<"editor">>, images |-> <<>>],
   [songs |-> <<Song(3, UNDEF)>>, name |-> "mix", description |-> "about", tags |-> <<"rock">>,
    collaborators |-> <<"editor">>, images |-> <<"cover">>],
   [songs |-> [i \in 1 .. (MAX_IMAGES + 1) |-> Song(10 + i, "art" \o ToString(10 + i))],
    name |-> "mix", description |-> "about", tags |-> <<"rock">>,
    collaborators |-> <<"editor">>, images |-> <<>>]}

\* bodies of POST /sets/:setId/songs
EditAddInputs == {<<1, 2>>, <<4, 5>>}

\* bodies of PATCH /sets/:setId/songs: none; a new id and the URI of a listed
\* one; the many songs backwards
EditReplaceInputs ==
  {<<>>, <<2, 0 - 1>>, [i \in 1 .. (MAX_IMAGES + 1) |-> 10 + (MAX_IMAGES + 2 - i)]}

NextEdits ==
  \/ \E p \in SeqProcs, input \in EditCreateInputs : CreateSetCall(p, "owner", input)
  \/ \E p \in SeqProcs : CreateSave(p)
  \/ \E p \in SeqProcs : CreatePush(p)
  \/ \E p \in SeqProcs, u \in Users, s \in SetIds, ids \in EditAddInputs :
        AddSongsCall(p, u, s, ids)
  \/ \E p \in SeqProcs, u \in Users, s \in SetIds, ids \in EditReplaceInputs :
        ReplaceSongsCall(p, u, s, ids)
  \/ \E p \in SeqProcs : AssertCanEdit(p)
  \/ \E p \in SeqProcs : AddFind(p)
  \/ \E p \in SeqProcs : AddPersist(p)
  \/ \E p \in SeqProcs : AddImages(p)
  \/ \E p \in SeqProcs : ReplaceFind(p)
  \/ \E p \in SeqProcs : ReplacePersist(p)
  \/ \E p \in SeqProcs : ReplaceImages(p)
  \/ \E p \in SeqProcs : EnsureLoad(p)
  \/ \E p \in SeqProcs : RefreshOk(p)
  \/ \E p \in SeqProcs : RefreshError(p)
  \/ \E p \in SeqProcs : UpdateTokensLoad(p)
  \/ \E p \in SeqProcs : UpdateTokensSet(p)
  \/ \E p \in SeqProcs : EnsureReturn(p)
  \/ \E p \in SeqProcs : HydrateLoad(p)
  \/ \E p \in SeqProcs : HydrateLoadError(p)
  \/ \E p \in SeqProcs : HydrateFetchOk(p)
  \/ \E p \in SeqProcs : HydrateWrite(p)
  \/ \E p \in SeqProcs : HydrateFetchError(p)
  \/ \E p \in SeqProcs : Finish(p)

SpecEdits == InitAdd /\ [][NextEdits]_vars

(***************************************************************************)
(* SpecRace: addSongs and replaceSongs requests of the owner served        *)
(* concurrently on one collection, from the state that a callback answered *)
(* with a one-hour token and a createSet of one song leave.  No time       *)
(* passes, so the token is never due; the catalog answers or fails.        *)
(***************************************************************************)
InitLinkedForAnHour ==
  LET d == [access_token |-> AccessTok(1), refresh_token |-> RefreshTok(1),
            expires_in |-> Num(3600)]
  IN  /\ tokens = [u \in Users |->
                     IF u = "owner" THEN JsonRoundTrip(ExchangedTokens(d, 0)) ELSE NoTokens]
      /\ respCtr = 1
      /\ issued = {PairOf(ExchangedTokens(d, 0))}
      /\ lastWriter = [u \in Users |-> IF u = "owner" THEN "p1" ELSE "none"]
      /\ oauthState = {}

\* what createSet leaves for the body {songs: [song 1], collaborators: [editor]}
InitOneSet ==
  /\ sets = <<ToSave("owner", [songs |-> <<Song(1, "art1")>>,
                               name |-> "mix", description |-> "about", tags |-> <<"rock">>,
                               collaborators |-> <<"editor">>, images |-> <<>>])>>
  /\ userSets = [u \in Users |-> IF u = "owner" THEN {1} ELSE {}]
  /\ created = 1
  /\ lastAdd = NoData
  /\ validated = <<{}>>
  /\ arg = [p \in Procs |-> NoData]
  /\ current = [p \in Procs |-> <<>>]
  /\ next = [p \in Procs |-> <<>>]
  /\ doc = [p \in Procs |-> NoData]

InitRace ==
  InitClock /\ InitLinkedForAnHour /\ InitProcs /\ InitCache /\ InitHyd /\ InitOneSet /\ InitEns

RaceAddInputs == {<<2>>, <<4, 5>>}
RaceReplaceInputs == {<<>>, <<2, 0 - 1>>}

NextRace ==
  \/ \E p \in Procs, ids \in RaceAddInputs : AddSongsCall(p, "owner", 1, ids)
  \/ \E p \in Procs, ids \in RaceReplaceInputs : ReplaceSongsCall(p, "owner", 1, ids)
  \/ \E p \in Procs : AssertCanEdit(p)
  \/ \E p \in Procs : AddFind(p)
  \/ \E p \in Procs : AddPersist(p)
  \/ \E p \in Procs : AddImages(p)
  \/ \E p \in Procs : ReplaceFind(p)
  \/ \E p \in Procs : ReplacePersist(p)
  \/ \E p \in Procs : ReplaceImages(p)
  \/ \E p \in Procs : EnsureLoad(p)
  \/ \E p \in Procs : HydrateLoad(p)
  \/ \E p \in Procs : HydrateLoadError(p)
  \/ \E p \in Procs : HydrateFetchOk(p)
  \/ \E p \in Procs : HydrateWrite(p)
  \/ \E p \in Procs : HydrateFetchError(p)
  \/ \E p \in Procs : Finish(p)

SpecRace == InitRace /\ [][NextRace]_vars

(***************************************************************************)
(* SpecMeta: updateSetBasic and updateFull requests of the owner and of a  *)
(* stranger, one at a time, on the collection of InitOneSet (name "mix",   *)
(* description "about", tags [rock], one song).  The owner's account is    *)
(* linked with a one-hour token, or not linked at all.                     *)
(***************************************************************************)
InitMeta ==
  /\ InitClock /\ InitProcs /\ InitCache /\ InitHyd /\ InitOneSet /\ InitEns
  /\ InitLinkedForAnHour \/ InitStore

\* bodies of PATCH /sets/:setId that pass UpdateSetSchema (at least one key)
MetaPatches ==
  {[name |-> "party"],
   [description |-> "new"],
   [description |-> NullText],
   [tags |-> <<"jazz">>],
   [name |-> "party", description |-> "new", tags |-> <<"jazz">>]}

\* bodies of PATCH /sets/:setId/full: a new name with a new track before the
\* listed one; every field with no songs; a new name and images with the
\* listed song
FullBodies ==
  {[name |-> "party", songs |-> <<2, 0 - 1>>],
   [name |-> "party", description |-> "new", tags |-> <<"jazz">>, songs |-> <<>>],
   [name |-> "party", images |-> <<"cover">>, songs |-> <<1>>]}

MetaUsers == {"owner", "stranger"}

NextMeta ==
  \/ \E p \in SeqProcs, u \in MetaUsers, patch \in MetaPatches :
        UpdateSetBasicCall(p, u, 1, patch)
  \/ \E p \in SeqProcs, u \in MetaUsers, body \in FullBodies : UpdateFullCall(p, u, 1, body)
  \/ \E p \in SeqProcs : AssertCanEdit(p)
  \/ \E p \in SeqProcs : UpdateFind(p)
  \/ \E p \in SeqProcs : UpdateBasicWrite(p)
  \/ \E p \in SeqProcs : UpdateImages(p)
  \/ \E p \in SeqProcs : ReplaceFind(p)
  \/ \E p \in SeqProcs : ReplacePersist(p)
  \/ \E p \in SeqProcs : ReplaceImages(p)
  \/ \E p \in SeqProcs : FullLoad(p)
  \/ \E p \in SeqProcs : EnsureLoad(p)
  \/ \E p \in SeqProcs : HydrateLoad(p)
  \/ \E p \in SeqProcs : HydrateLoadError(p)
  \/ \E p \in SeqProcs : HydrateFetchOk(p)
  \/ \E p \in SeqProcs : HydrateWrite(p)
  \/ \E p \in SeqProcs : HydrateFetchError(p)
  \/ \E p \in SeqProcs : Finish(p)

SpecMeta == InitMeta /\ [][NextMeta]_vars

(***************************************************************************)
(* SpecOAuth: callback requests served concurrently, from the state that   *)
(* one POST /authorize/spotify of the owner leaves: one state stored.      *)
(***************************************************************************)
InitOAuth ==
  /\ InitClock /\ InitProcs /\ InitEns /\ InitCache /\ InitHyd /\ InitSets
  /\ tokens = [u \in Users |-> NoTokens]
  /\ respCtr = 0
  /\ issued = {}
  /\ lastWriter = [u \in Users |-> "none"]
  /\ oauthState = {"owner"}

NextOAuth ==
  \/ \E p \in Procs : StateCallbackCall(p, "owner")
  \/ \E p \in Procs : CallbackGet(p)
  \/ \E p \in Procs : CallbackDel(p)
  \/ \E p \in Procs : ExchangeOk(p)
  \/ \E p \in Procs : ExchangeError(p)
  \/ \E p \in Procs : SaveTokens(p)
  \/ \E p \in Procs : Finish(p)

SpecOAuth == InitOAuth /\ [][NextOAuth]_vars

(***************************************************************************)
(* SpecLive: one ensureAccessToken, getManyWithHydrate, addSongs or        *)
(* replaceSongs invocation, on the collection of InitOneSet, the owner's   *)
(* account linked with a token that is due for refresh, linked for an      *)
(* hour, or not linked.  The catalog answers, fails or rate limits.  Every *)
(* awaited call is answered: a request that waits for an answer gets one   *)
(* of the answers the model gives it, and time reaches a pending timer.    *)
(* No operation waits for another request, so one request is served.       *)
(***************************************************************************)
InitLive ==
  /\ InitClock /\ InitProcs /\ InitCache /\ InitHyd /\ InitOneSet /\ InitEns
  /\ InitLinked \/ InitLinkedForAnHour \/ InitStore

\* the owner, and the editor, who has linked no account
LiveUsers == {"owner", "editor"}
LiveAddInputs == {<<2>>}
LiveReplaceInputs == {<<2, 0 - 1>>}

\* the awaited call of request p is answered, or its timer fires
AnswerOf(p) ==
  \/ AssertCanEdit(p)
  \/ AddFind(p)
  \/ AddPersist(p)
  \/ AddImages(p)
  \/ ReplaceFind(p)
  \/ ReplacePersist(p)
  \/ ReplaceImages(p)
  \/ EnsureLoad(p)
  \/ RefreshOk(p)
  \/ RefreshError(p)
  \/ UpdateTokensLoad(p)
  \/ UpdateTokensSet(p)
  \/ EnsureReturn(p)
  \/ HydrateLoad(p)
  \/ HydrateLoadError(p)
  \/ HydrateFetchOk(p)
  \/ HydrateWrite(p)
  \/ HydrateFetchError(p)
  \/ HydrateRateLimited(p)
  \/ HydrateWake(p)

NextLive ==
  \/ TickToTimer
  \/ \E p \in SeqProcs, u \in LiveUsers : EnsureCall(p, u)
  \/ \E p \in SeqProcs, ids \in LimitInputs : HydrateCall(p, ids)
  \/ \E p \in SeqProcs, ids \in LiveAddInputs : AddSongsCall(p, "owner", 1, ids)
  \/ \E p \in SeqProcs, ids \in LiveReplaceInputs : ReplaceSongsCall(p, "owner", 1, ids)
  \/ \E p \in SeqProcs : AnswerOf(p)

SpecLive ==
  /\ InitLive
  /\ [][NextLive]_vars
  /\ WF_vars(TickToTimer)
  /\ \A p \in SeqProcs : WF_vars(AnswerOf(p))

(***************************************************************************)
(* Claims about the Credential Store and the Token Lifecycle Manager.      *)
(***************************************************************************)
Stored(u) == tokens[u] # NoTokens

\* p serves ensureAccessToken and has come back from it
EnsureDone(p) == op[p] = "ensure" /\ pc[p] = "done"

\* C3: the stored access token and the stored expiry always come from one and
\* the same upstream answer, whatever the interleaving of refreshes and
\* callback saves.
C3_ExpiryBelongsToAccessToken ==
  \A u \in TokUsers :
    Stored(u) =>
      [access_token |-> tokens[u].access_token, expires_at |-> tokens[u].expires_at]
        \in issued

\* C3 witness: a refresh has overwritten a record that a callback saved
\* while the refresh was in flight.
C3_Witness ==
  \E p \in Procs, q \in Procs :
    /\ op[p] = "ensure" /\ pc[p] = "ens_return" /\ wrote[p]
    /\ op[q] = "callback" /\ pc[q] = "done" /\ wrote[q]
    /\ lastWriter[usr[p]] = p
    /\ usr[q] = usr[p]
    /\ tk[p].access_token # refreshed[q].access_token

\* C4: ensureAccessToken on a stored record goes to the upstream refresh
\* exactly when now > expiresAt - 60 s; otherwise the same step returns the
\* stored access token, with no upstream call and no write of the store.
C4_RefreshIffWithinMargin ==
  [][\A p \in Procs :
       (pc[p] = "ens_load" /\ pc'[p] # "ens_load" /\ Stored(usr[p])) =>
         LET e   == tokens[usr[p]].expires_at
             due == now > (IF Len(e) = 2 THEN e[2] ELSE 0) - 60000
         IN  IF due
               THEN /\ pc'[p] = "ens_refresh"
                    /\ ret'[p].kind = "none"
               ELSE /\ pc'[p] = "done"
                    /\ ret'[p] = [kind |-> "return", val |-> tokens[usr[p]].access_token]
                    /\ upCalls'[p] = 0
                    /\ ~wrote'[p]
                    /\ tokens' = tokens
                    /\ respCtr' = respCtr]_vars

\* C4 witness: a call made exactly 60 s before the expiry has returned the
\* stored token without a refresh.
C4_Witness ==
  \E p \in Procs :
    /\ EnsureDone(p) /\ ret[p].kind = "return" /\ upCalls[p] = 0
    /\ Len(tk[p].expires_at) = 2
    /\ now = tk[p].expires_at[2] - 60000
    /\ ret[p].val = tk[p].access_token

\* the refresh p made did not yield a usable access token
RefreshUnusable(p) ==
  /\ upCalls[p] > 0
  /\ IF data[p] = NoData THEN TRUE ELSE data[p].access_token = UNDEF

\* C5: a due refresh whose upstream call errors, or whose answer carries no
\* access token, makes ensureAccessToken fail; it never returns normally.
C5_UnusableRefreshFails ==
  \A p \in Procs :
    (EnsureDone(p) /\ RefreshUnusable(p)) => ret[p].kind = "throw"

\* C6: when ensureAccessToken returns a refreshed token, its write of the
\* store is complete, and as long as nobody else has written since, the store
\* holds exactly the returned access token.
C6_PersistedBeforeReturn ==
  \A p \in Procs :
    (EnsureDone(p) /\ ret[p].kind = "return" /\ upCalls[p] > 0) =>
      /\ wrote[p]
      /\ lastWriter[usr[p]] = p => tokens[usr[p]].access_token = ret[p].val

\* C6 witness: a refreshed token has been returned and is what the store holds.
C6_Witness ==
  \E p \in Procs :
    /\ EnsureDone(p) /\ ret[p].kind = "return" /\ upCalls[p] > 0
    /\ lastWriter[usr[p]] = p
    /\ ret[p].val # UNDEF
    /\ ret[p].val # tk[p].access_token

\* C7: after the write of a refresh, the stored refresh token is the one of
\* the answer if it carried one, else the one read from the record at load;
\* and the request was made with the refresh token read from the record.
C7_RefreshTokenKeptOrReplaced ==
  \A p \in Procs :
    (op[p] = "ensure" /\ upCalls[p] > 0) =>
      /\ sentRefresh[p] = tk[p].refresh_token
      /\ (wrote[p] /\ lastWriter[usr[p]] = p) =>
            tokens[usr[p]].refresh_token =
              IF data[p].refresh_token # UNDEF THEN data[p].refresh_token
              ELSE tk[p].refresh_token

\* C7 witness: the answer carried an access token and no refresh token, and
\* the refresh has been written.
C7_Witness ==
  \E p \in Procs :
    /\ op[p] = "ensure" /\ wrote[p] /\ lastWriter[usr[p]] = p
    /\ data[p].access_token # UNDEF
    /\ data[p].refresh_token = UNDEF
    /\ tokens[usr[p]].refresh_token = tk[p].refresh_token

\* C8: without a stored record ensureAccessToken fails with the no-credential
\* error, calls no upstream and writes nothing to the store.
C8_NoCredentialFails ==
  \A p \in Procs :
    (EnsureDone(p) /\ tk[p] = NoTokens) =>
      /\ ret[p] = [kind |-> "throw", val |-> "No tokens stored for user"]
      /\ upCalls[p] = 0
      /\ ~wrote[p]
      /\ lastWriter[usr[p]] # p

\* C8 witness: the call has failed while the owner has no record.
C8_Witness ==
  \E p \in Procs :
    /\ EnsureDone(p) /\ tk[p] = NoTokens
    /\ ~Stored(usr[p])

(***************************************************************************)
(* Claims about the Metadata Cache.                                        *)
(***************************************************************************)
\* p serves getManyWithHydrate and the call has returned its array
HydrateDone(p) == op[p] = "hydrate" /\ pc[p] = "done" /\ ret[p].kind = "return"

\* the ids of the records p's call returned
ResultIds(p) == {hres[p][i].trackId : i \in DOMAIN hres[p]}

\* the input ids that were fresh in the store at lookup, or that a successful
\* bulk fetch of this invocation answered non-null
FreshOrFetched(p) ==
  {id \in Range(hIds[p]) :
     \/ id \in DOMAIN cached[p] /\ lookupAt[p] - cached[p][id].updatedAt < 604800000
     \/ id \in got[p]}

FirstAt(ids, id) == CHOOSE i \in DOMAIN ids : ids[i] = id /\ \A j \in 1 .. (i - 1) : ids[j] # id

\* C10: the result holds at most one record per id, in the order of the first
\* occurrences of the ids in the input.
C10_ResultDedupedInInputOrder ==
  \A p \in Procs :
    HydrateDone(p) =>
      \A i \in DOMAIN hres[p], j \in DOMAIN hres[p] :
        i < j => /\ hres[p][i].trackId # hres[p][j].trackId
                 /\ FirstAt(hIds[p], hres[p][i].trackId) < FirstAt(hIds[p], hres[p][j].trackId)

(***************************************************************************)
(* Claims about the collections.                                           *)
(***************************************************************************)
\* C1: the persisted songs of a collection hold no track id twice.
C1_NoDuplicateTrackId ==
  \A s \in DOMAIN sets :
    \A i \in DOMAIN sets[s].songs, j \in DOMAIN sets[s].songs :
      i # j => sets[s].songs[i].id # sets[s].songs[j].id

\* C2: every track id in the persisted songs of a collection was returned by
\* getManyWithHydrate to the operation that put it there.
C2_OnlyValidatedIds ==
  \A s \in DOMAIN sets :
    \A i \in DOMAIN sets[s].songs : sets[s].songs[i].id \in validated[s]

\* the chunks of 50 that `missing` is cut into, in order
ChunksOf(m) == [k \in 1 .. ((Len(m) + CHUNK_SIZE - 1) \div CHUNK_SIZE) |-> ChunkAt(m, (k - 1) * CHUNK_SIZE)]

SentIds(p) == UNION {Range(sent[p][k].chunk) : k \in DOMAIN sent[p]}

\* C12: of the input ids found in the store, the one whose record is less
\* than 7 days old at the lookup is served as stored and is in no upstream
\* fetch; the one whose record is 7 days old or older is fetched upstream.
C12_FreshIffYoungerThanTTL ==
  \A p \in Procs :
    HydrateDone(p) =>
      \A id \in DOMAIN cached[p] :
        IF lookupAt[p] - cached[p][id].updatedAt < 604800000
          THEN /\ id \notin SentIds(p)
               /\ \E i \in DOMAIN hres[p] : hres[p][i] = cached[p][id]
          ELSE id \in SentIds(p)

\* C12 witness: one call found a record exactly 7 days old and fetched its id
\* again, and found a younger record and served it unfetched.
C12_Witness ==
  \E p \in Procs :
    /\ HydrateDone(p)
    /\ \E id \in DOMAIN cached[p] :
          lookupAt[p] - cached[p][id].updatedAt = 604800000 /\ id \in SentIds(p)
    /\ \E id \in DOMAIN cached[p] :
          /\ lookupAt[p] - cached[p][id].updatedAt < 604800000
          /\ id \notin SentIds(p)
          /\ id \in ResultIds(p)

(***************************************************************************)
(* Claims about replaceSongs.                                              *)
(***************************************************************************)
\* p's replaceSongs writes the songs in this step
ReplacePersists(p) == op[p] = "replaceSongs" /\ pc[p] = "rep_set" /\ pc'[p] = "rep_images"

\* finalOrder as ids, first occurrences only, restricted to the ids of the
\* list p read and the ids hydrate returned to p
KeptOrder(p) ==
  LET ids      == [i \in DOMAIN arg[p].ids |->
                     IF arg[p].ids[i] < 0 THEN 0 - arg[p].ids[i] ELSE arg[p].ids[i]]
      first(i) == \A j \in 1 .. (i - 1) : ids[j] # ids[i]
      known(i) == \/ \E k \in DOMAIN current[p] : current[p][k].id = ids[i]
                  \/ \E k \in DOMAIN hres[p] : hres[p][k].trackId = ids[i]
      idx      == [i \in DOMAIN ids |-> i]
      keep(i)  == first(i) /\ known(i)
      kept     == SelectSeq(idx, keep)
  IN  [k \in DOMAIN kept |-> ids[kept[k]]]

ReplaceDone(p) == op[p] = "replaceSongs" /\ pc[p] = "done" /\ ret[p].kind = "return"

SameIdSequence(a, b) == Len(a) = Len(b) /\ \A i \in DOMAIN a : a[i].id = b[i].id

C14_ReplaceResultFields ==
  \A p \in Procs :
    ReplaceDone(p) =>
      LET r      == ret[p].val
          prev   == current[p]
          absent == {i \in DOMAIN prev : \A j \in DOMAIN r.songs : r.songs[j].id # prev[i].id}
      IN  /\ r.removedCount = Len(r.removed)
          /\ r.length = Len(r.songs)
          /\ Len(r.removed) = Cardinality(absent)
          /\ \E f \in [DOMAIN r.removed -> absent] :
                /\ \A k, l \in DOMAIN r.removed : k < l => f[k] < f[l]
                /\ \A k \in DOMAIN r.removed : r.removed[k] = prev[f[k]]
          /\ r.orderChanged <=> ~SameIdSequence(prev, r.songs)

\* a pure reorder: the same ids, each once, in another order
C14_Witness ==
  \E p \in Procs :
    /\ ReplaceDone(p)
    /\ Len(current[p]) = 2 /\ Len(ret[p].val.songs) = 2
    /\ current[p][1].id = ret[p].val.songs[2].id
    /\ current[p][2].id = ret[p].val.songs[1].id
    /\ current[p][1].id # current[p][2].id
    /\ ret[p].val.orderChanged
    /\ ret[p].val.removedCount = 0

(***************************************************************************)
(* C15: replaceSongs called with exactly the ids of the current list, in   *)
(* their current order, returns orderChanged = false and removedCount = 0  *)
(* and leaves the persisted list as it was.                                *)
(***************************************************************************)
C15_ReplaceWithCurrentIdsIsNoOp ==
  \A p \in Procs :
    (ReplaceDone(p) /\ arg[p].ids = IdsOf(current[p])) =>
      /\ ~ret[p].val.orderChanged
      /\ ret[p].val.removedCount = 0
      /\ sets[arg[p].setId].songs = current[p]

(***************************************************************************)
(* C16: replaceSongs with an empty finalOrder persists an empty list and   *)
(* returns removedCount equal to the length of the previous list, with     *)
(* every previous record in removed.                                       *)
(***************************************************************************)
C16_EmptyOrderRemovesEverything ==
  \A p \in Procs :
    (ReplaceDone(p) /\ arg[p].ids = <<>>) =>
      /\ sets[arg[p].setId].songs = <<>>
      /\ ret[p].val.songs = <<>>
      /\ ret[p].val.removedCount = Len(current[p])
      /\ ret[p].val.removed = current[p]

C16_Witness ==
  \E p \in Procs :
    /\ ReplaceDone(p)
    /\ arg[p].ids = <<>>
    /\ Len(current[p]) = 2
    /\ sets[arg[p].setId].songs = <<>>

(***************************************************************************)
(* C17: a replaceSongs that got an access token and called hydrate for its *)
(* new ids returns normally whatever hydrate did (it returned nothing for  *)
(* some or all of them, or it threw): the new ids hydrate did not return   *)
(* are not in the persisted list, every id of the previous list that was   *)
(* requested is, in the requested order, and the result has no field that  *)
(* reports the dropped ids.                                                *)
(***************************************************************************)
\* where the id first occurs in finalOrder, 0 if it does not
FirstAsked(p, id) ==
  LET at == {i \in DOMAIN arg[p].ids : Normalize(arg[p].ids[i]) = id}
  IN  IF at = {} THEN 0 ELSE CHOOSE i \in at : \A j \in at : i <= j

C17_UnresolvedIdsDoNotFailReplace ==
  \A p \in Procs :
    (op[p] = "replaceSongs" /\ pc[p] = "done" /\ accessToken[p] # UNDEF) =>
      /\ ret[p].kind = "return"
      /\ DOMAIN ret[p].val = {"songs", "removedCount", "removed", "orderChanged", "length"}
      /\ LET songs   == sets[arg[p].setId].songs
             dropped == Range(hIds[p]) \ ResultIds(p)
         IN  /\ \A i \in DOMAIN songs : songs[i].id \notin dropped
             /\ \A k \in DOMAIN current[p] :
                   FirstAsked(p, current[p][k].id) > 0 =>
                     \E i \in DOMAIN songs : songs[i] = IdToSong(current[p], current[p][k].id)
             /\ \A i, j \in DOMAIN songs :
                   i < j => FirstAsked(p, songs[i].id) < FirstAsked(p, songs[j].id)

\* C17 witness: hydrate threw before it sent anything, the new id is dropped
\* and the requested song of the previous list is persisted.
C17_Witness ==
  \E p \in Procs :
    /\ ReplaceDone(p)
    /\ accessToken[p] # UNDEF
    /\ hIds[p] # <<>> /\ hres[p] = <<>> /\ sent[p] = <<>>
    /\ Len(sets[arg[p].setId].songs) > 0

(***************************************************************************)
(* Claims about two addSongs calls that follow each other.                 *)
(***************************************************************************)
AddDone(p) == op[p] = "addSongs" /\ pc[p] = "done" /\ ret[p].kind = "return"

\* p's addSongs has returned; it is the first edit of its collection after
\* the addSongs that lastAdd records, and read the list that one returned
AddFollowsAdd(p) ==
  /\ AddDone(p)
  /\ "setId" \in DOMAIN lastAdd
  /\ lastAdd.setId = arg[p].setId
  /\ lastAdd.result.songs = current[p]

SongsOf(hydrated) == [i \in DOMAIN hydrated |-> SongOf(hydrated[i])]

(***************************************************************************)
(* C18: for disjoint id sets A and B, none of them in the collection,      *)
(* addSongs(A) followed by addSongs(B) leaves the persisted list equal to  *)
(* the original list, then the records hydrate returned for A in hydrate   *)
(* order, then those it returned for B, and no track id occurs twice in    *)
(* that list.                                                              *)
(***************************************************************************)
C18_AddThenAddAppendsInOrder ==
  \A p \in Procs :
    (/\ AddFollowsAdd(p)
     /\ Range(lastAdd.trackIds) \cap Range(arg[p].ids) = {}
     /\ (Range(lastAdd.trackIds) \cup Range(arg[p].ids)) \cap Range(IdsOf(lastAdd.before)) = {})
    =>
      LET songs == sets[arg[p].setId].songs IN
        /\ songs = lastAdd.before \o SongsOf(lastAdd.hydrated) \o SongsOf(hres[p])
        /\ \A i, j \in DOMAIN songs : songs[i].id = songs[j].id => i = j

(***************************************************************************)
(* C19: addSongs called twice in succession with the same candidateIds on  *)
(* the same collection, no other edit in between, adds nothing the second  *)
(* time: the second call returns added = 0 and the persisted list is what  *)
(* it was after the first call, whatever the first call's hydration did.   *)
(***************************************************************************)
C19_SecondAddAddsNothing ==
  \A p \in Procs :
    (AddFollowsAdd(p) /\ lastAdd.trackIds = arg[p].ids) =>
      /\ ret[p].val.added = 0
      /\ sets[arg[p].setId].songs = lastAdd.result.songs

\* C19 as the code has it: the second call adds exactly the ids the first
\* call skipped and hydrate returns this time, after the list of the first
\* call; it adds nothing when the first call skipped nothing, and nothing
\* that the first call added.
C19_SecondAddAddsOnlyWhatWasSkipped ==
  \A p \in Procs :
    (AddFollowsAdd(p) /\ lastAdd.trackIds = arg[p].ids) =>
      LET skippedThen == Range(lastAdd.result.skipped)
          resolvedNow == {id \in skippedThen : \E k \in DOMAIN hres[p] : hres[p][k].trackId = id}
          songs       == sets[arg[p].setId].songs
          before      == lastAdd.result.songs
      IN  /\ ret[p].val.added = Cardinality(resolvedNow)
          /\ Len(songs) = Len(before) + Cardinality(resolvedNow)
          /\ \A i \in DOMAIN before : songs[i] = before[i]
          /\ {songs[i].id : i \in (Len(before) + 1) .. Len(songs)} = resolvedNow
          /\ skippedThen = {} => (ret[p].val.added = 0 /\ songs = before)

\* C19 witness: the first call skipped an id whose group failed, the second
\* call, with the same ids, got it from hydrate and added it.
C19_Witness ==
  \E p \in Procs :
    /\ AddFollowsAdd(p)
    /\ lastAdd.trackIds = arg[p].ids
    /\ lastAdd.result.skipped # <<>>
    /\ \E k \in DOMAIN hres[p] : hres[p][k].trackId \in Range(lastAdd.result.skipped)
    /\ ret[p].val.added > 0

(***************************************************************************)
(* C20: in the result of addSongs, skipped is exactly the incoming ids     *)
(* (the candidates, each once, that the list did not hold) that hydrate    *)
(* did not return; added is the number of records appended; and every      *)
(* incoming id is either appended or in skipped, never both, never         *)
(* neither.                                                                *)
(***************************************************************************)
C20_SkippedAndAddedPartitionIncoming ==
  \A p \in Procs :
    AddDone(p) =>
      LET r        == ret[p].val
          before   == current[p]
          incoming == {id \in Range(arg[p].ids) : \A k \in DOMAIN before : before[k].id # id}
          appended == {r.songs[i].id : i \in (Len(before) + 1) .. Len(r.songs)}
          skipped  == Range(r.skipped)
      IN  /\ \A i \in DOMAIN before : r.songs[i] = before[i]
          /\ r.added = Len(r.songs) - Len(before)
          /\ r.added = Cardinality(appended)
          /\ Len(r.skipped) = Cardinality(skipped)
          /\ skipped = incoming \ ResultIds(p)
          /\ appended \cup skipped = incoming
          /\ appended \cap skipped = {}

\* C20 witness: of three candidates, two of them the same id, one id was
\* appended and the other skipped.
C20_Witness ==
  \E p \in Procs :
    /\ AddDone(p)
    /\ ret[p].val.added = 1
    /\ Len(ret[p].val.skipped) = 1
    /\ Cardinality(Range(arg[p].ids)) = 2
    /\ Len(arg[p].ids) = 3

(***************************************************************************)
(* C21: addSongs only appends: the list a returned addSongs left in the    *)
(* collection starts with the list it loaded, record by record, and goes   *)
(* on with one record per record of hydrate's result, in that order.       *)
(***************************************************************************)
C21_AddOnlyAppends ==
  \A p \in Procs :
    AddDone(p) =>
      LET songs  == sets[arg[p].setId].songs
          loaded == current[p]
      IN  /\ Len(songs) = Len(loaded) + Len(hres[p])
          /\ \A i \in DOMAIN loaded : songs[i] = loaded[i]
          /\ \A k \in DOMAIN hres[p] :
                /\ songs[Len(loaded) + k].id = hres[p][k].trackId
                /\ songs[Len(loaded) + k].title = hres[p][k].name

\* C21 witness: two records were appended, in hydrate's order, after a
\* loaded list that is not empty.
C21_Witness ==
  \E p \in Procs :
    /\ AddDone(p)
    /\ Len(current[p]) > 0
    /\ Len(hres[p]) = 2
    /\ hres[p][1].trackId # hres[p][2].trackId
    /\ Len(sets[arg[p].setId].songs) = Len(current[p]) + 2

(***************************************************************************)
(* C22: when every candidate id of addSongs is in the list the call loads, *)
(* the call returns that list with added = 0 and nothing skipped, in the   *)
(* step that loaded it: no token is acquired, nothing is sent upstream,    *)
(* hydrate is not called, and the collection, the cache and the credential *)
(* store are not written.                                                  *)
(***************************************************************************)
AddFinds(p) == op[p] = "addSongs" /\ pc[p] = "edit_find" /\ pc'[p] # "edit_find"

AllCandidatesListed(p) ==
  /\ arg[p].setId \in DOMAIN sets
  /\ \A i \in DOMAIN arg[p].ids :
        \E k \in DOMAIN sets[arg[p].setId].songs : sets[arg[p].setId].songs[k].id = arg[p].ids[i]

C22_NothingToAddDoesNothing ==
  [][\A p \in Procs :
       (AddFinds(p) /\ AllCandidatesListed(p)) =>
         /\ pc'[p] = "done"
         /\ ret'[p].kind = "return"
         /\ ret'[p].val.songs = sets[arg[p].setId].songs
         /\ ret'[p].val.added = 0
         /\ ret'[p].val.skipped = <<>>
         /\ accessToken'[p] = UNDEF /\ tk'[p] = NoData /\ upCalls'[p] = 0
         /\ sent'[p] = <<>> /\ lookupAt'[p] = 0 /\ hres'[p] = <<>>
         /\ UNCHANGED <<sets, cache, limited, tokens, respCtr, issued, lastWriter>>]_vars

\* C22 witness: an addSongs whose candidates were all listed has returned.
C22_Witness ==
  \E p \in Procs :
    /\ AddDone(p)
    /\ Len(arg[p].ids) > 0
    /\ \A i \in DOMAIN arg[p].ids :
          \E k \in DOMAIN current[p] : current[p][k].id = arg[p].ids[i]
    /\ ret[p].val.added = 0
    /\ accessToken[p] = UNDEF

(***************************************************************************)
(* Claims about the failures of addSongs and replaceSongs.                 *)
(***************************************************************************)
EditOp(p) == op[p] \in {"addSongs", "replaceSongs"}

\* p's edit passes from the authorization check to what follows it
EditAuthorizes(p) == EditOp(p) /\ pc[p] = "edit_auth" /\ pc'[p] # "edit_auth"

(***************************************************************************)
(* C23: addSongs and replaceSongs called, on a collection that exists, by  *)
(* an actor who is neither its owner nor one of its editors fail with      *)
(* Forbidden in the step that checks the actor; the collection's songs and *)
(* images, the cache and the credential store are unchanged and nothing    *)
(* has been sent upstream.                                                 *)
(***************************************************************************)
C23_ForbiddenChangesNothing ==
  [][\A p \in Procs :
       (/\ EditAuthorizes(p)
        /\ arg[p].setId \in DOMAIN sets
        /\ sets[arg[p].setId].createdBy # usr[p]
        /\ \A i \in DOMAIN sets[arg[p].setId].collaborators :
              sets[arg[p].setId].collaborators[i] # usr[p])
       =>
         /\ pc'[p] = "done"
         /\ ret'[p].kind = "throw"
         /\ ret'[p].val = "Forbidden"
         /\ sent'[p] = <<>> /\ upCalls'[p] = 0 /\ accessToken'[p] = UNDEF
         /\ UNCHANGED <<sets, cache, limited, tokens, respCtr, issued, lastWriter>>]_vars

\* C23 witness: a stranger's edit of an existing collection has failed.
C23_Witness ==
  \E p \in Procs :
    /\ op[p] = "replaceSongs" /\ pc[p] = "done"
    /\ usr[p] = "stranger"
    /\ arg[p].setId \in DOMAIN sets
    /\ ret[p].kind = "throw"
    /\ Len(sets[arg[p].setId].songs) > 0

(***************************************************************************)
(* C24: addSongs and replaceSongs called with a collection id for which no *)
(* collection exists fail with NotFound (the code's "Set not found").      *)
(***************************************************************************)
C24_AbsentCollectionIsNotFound ==
  \A p \in Procs :
    (EditOp(p) /\ pc[p] = "done" /\ arg[p].setId \notin DOMAIN sets) =>
      /\ ret[p].kind = "throw"
      /\ ret[p].val = "Set not found"

(***************************************************************************)
(* C25: when addSongs or replaceSongs has ids to hydrate and               *)
(* ensureAccessToken fails, because no record is stored for the actor or   *)
(* because the upstream refresh call failed, the operation ends with that  *)
(* failure, has sent nothing to the catalog and has not called hydrate,    *)
(* and the collection's songs are the list it loaded.                      *)
(***************************************************************************)
NoCredential(p)  == tk[p] = NoTokens
RefreshFailed(p) == sentRefresh[p] # UNDEF /\ data[p] = NoData

C25_TokenFailureIsRaised ==
  \A p \in Procs :
    (EditOp(p) /\ pc[p] = "done" /\ (NoCredential(p) \/ RefreshFailed(p))) =>
      /\ ret[p].kind = "throw"
      /\ NoCredential(p) => ret[p].val = "No tokens stored for user"
      /\ RefreshFailed(p) => ret[p].val = "Request failed"
      /\ sent[p] = <<>> /\ got[p] = {} /\ hres[p] = <<>>
      /\ sets[arg[p].setId].songs = current[p]

\* C25 witness: a replaceSongs with a new id ended with the failure of the
\* upstream refresh call, the songs as they were.
C25_Witness ==
  \E p \in Procs :
    /\ op[p] = "replaceSongs" /\ pc[p] = "done"
    /\ RefreshFailed(p)
    /\ hIds[p] # <<>>
    /\ ret[p].kind = "throw"
    /\ Len(sets[arg[p].setId].songs) > 0

(***************************************************************************)
(* C26: after addSongs or replaceSongs has persisted a list, the           *)
(* collection's images are the first up-to-5 non-empty artwork URLs of     *)
(* that list, in list order: none when no song of the list has artwork.    *)
(***************************************************************************)
\* the positions of the songs that have artwork, and how many come before
ArtAt(songs) == {i \in DOMAIN songs : songs[i].image # UNDEF}
ArtBefore(songs, i) == Cardinality({j \in ArtAt(songs) : j < i})

ImagesFollow(images, songs) ==
  /\ Len(images) = Min(Cardinality(ArtAt(songs)), 5)
  /\ \A i \in ArtAt(songs) :
        ArtBefore(songs, i) < 5 => images[ArtBefore(songs, i) + 1] = songs[i].image

\* p's edit has returned after writing a list
EditPersisted(p) ==
  \/ ReplaceDone(p)
  \/ AddDone(p) /\ hIds[p] # <<>>

C26_ImagesFollowPersistedList ==
  \A p \in Procs :
    EditPersisted(p) =>
      ImagesFollow(sets[arg[p].setId].images, sets[arg[p].setId].songs)

(***************************************************************************)
(* C27: ensureAccessToken calls for one owner do not exclude each other:   *)
(* a call that loads a record within 60 s of its expiry goes on to the     *)
(* upstream refresh whatever the other call is doing, and the refresh step *)
(* always makes the upstream call; once two such calls have written, the   *)
(* store holds the whole token set of the call that wrote last, no field   *)
(* of it from the other call.                                              *)
(***************************************************************************)
EnsureLoadsDue(p) ==
  /\ op[p] = "ensure" /\ pc[p] = "ens_load" /\ pc'[p] # "ens_load"
  /\ Stored(usr[p])
  /\ RefreshDue(now, tokens[usr[p]].expires_at)

BothRefreshed(p, q) ==
  /\ p # q /\ usr[p] = usr[q]
  /\ EnsureDone(p) /\ EnsureDone(q)
  /\ wrote[p] /\ wrote[q]

C27_ConcurrentRefreshLastWriteWins ==
  /\ [][\A p \in Procs :
          /\ EnsureLoadsDue(p) => pc'[p] = "ens_refresh"
          /\ (op[p] = "ensure" /\ pc[p] = "ens_refresh" /\ pc'[p] # "ens_refresh") =>
                upCalls'[p] = upCalls[p] + 1]_vars
  /\ [](\A p \in Procs, q \in Procs :
          BothRefreshed(p, q) =>
            LET w == lastWriter[usr[p]] IN
              /\ w \in {p, q}
              /\ tokens[usr[p]].access_token = refreshed[w].access_token
              /\ tokens[usr[p]].refresh_token = refreshed[w].refresh_token
              /\ tokens[usr[p]].expires_at = JsonRoundTrip(refreshed[w]).expires_at)

\* C27 witness: two calls loaded the same record, each made its upstream
\* call, both wrote, and the answers carried different refresh tokens.
C27_Witness ==
  \E p \in Procs, q \in Procs :
    /\ BothRefreshed(p, q)
    /\ tk[p] = tk[q]
    /\ upCalls[p] = 1 /\ upCalls[q] = 1
    /\ refreshed[p].refresh_token # refreshed[q].refresh_token
    /\ lastWriter[usr[p]] = q

(***************************************************************************)
(* C28: concurrent edits of one collection are not serialised.  Each edit  *)
(* builds its list from the list it loaded and writes it whole, whatever   *)
(* the collection holds by then; when two edits have both written and      *)
(* returned, the collection's songs are the whole list of one of them.     *)
(***************************************************************************)
EditPersists(p) ==
  /\ EditOp(p)
  /\ pc[p] \in {"add_set", "rep_set"}
  /\ pc'[p] \notin {"add_set", "rep_set"}

BothPersisted(p, q) ==
  /\ p # q
  /\ EditPersisted(p) /\ EditPersisted(q)
  /\ arg[p].setId = arg[q].setId

C28_ConcurrentEditsLastWriteWins ==
  /\ [][\A p \in Procs :
          EditPersists(p) =>
            /\ sets'[arg[p].setId].songs = next'[p]
            /\ op[p] = "addSongs" =>
                  /\ Len(next'[p]) = Len(current[p]) + Len(hres[p])
                  /\ \A i \in DOMAIN current[p] : next'[p][i] = current[p][i]
            /\ op[p] = "replaceSongs" =>
                  [i \in DOMAIN next'[p] |-> next'[p][i].id] = KeptOrder(p)]_vars
  /\ [](\A p \in Procs, q \in Procs :
          BothPersisted(p, q) =>
            \/ sets[arg[p].setId].songs = next[p]
            \/ sets[arg[p].setId].songs = next[q])

\* C28 witness: two edits loaded the same list and wrote different lists;
\* the collection holds the list of one and lacks a song the other wrote.
C28_Witness ==
  \E p \in Procs, q \in Procs :
    /\ BothPersisted(p, q)
    /\ current[p] = current[q]
    /\ sets[arg[p].setId].songs = next[q]
    /\ \E i \in DOMAIN next[p] :
          \A j \in DOMAIN next[q] : next[q][j].id # next[p][i].id

(***************************************************************************)
(* Claims about the upstream calls of getManyWithHydrate.                  *)
(***************************************************************************)
\* the input ids of p's call that were absent from the store, or stale in it,
\* at the lookup
StaleOrAbsent(p) ==
  {id \in Range(hIds[p]) :
     ~(id \in DOMAIN cached[p] /\ lookupAt[p] - cached[p][id].updatedAt < 604800000)}

\* how many ids the first k bulk fetches of p's call carried, an id counted
\* as often as it was sent
RECURSIVE SentCount(_, _)
SentCount(p, k) ==
  IF k = 0 THEN 0 ELSE Len(sent[p][k].chunk) + SentCount(p, k - 1)

\* C29: within one invocation no bulk fetch carries more than 50 ids, no id
\* is sent twice (whether its group was answered with a null entry, failed or
\* was rate limited), an id that was fresh at the lookup is sent in no call,
\* and when the invocation returns every stale-or-absent id has been sent
\* exactly once.
C29_EachMissingIdSentOnce ==
  \A p \in Procs :
    op[p] = "hydrate" =>
      LET wanted == StaleOrAbsent(p)
          sentIds == SentIds(p)
      IN  /\ \A k \in DOMAIN sent[p] :
                Len(sent[p][k].chunk) >= 1 /\ Len(sent[p][k].chunk) <= 50
          /\ SentCount(p, Len(sent[p])) = Cardinality(sentIds)
          /\ sentIds \subseteq wanted
          /\ HydrateDone(p) => wanted \subseteq sentIds

\* C29 witness: a call for 52 ids, one of them fresh, sent a full group of 50
\* that failed or was rate limited and a second group whose answer had a null
\* entry, and returned.
C29_Witness ==
  \E p \in Procs :
    /\ HydrateDone(p)
    /\ Len(sent[p]) = 2
    /\ Len(sent[p][1].chunk) = 50
    /\ sent[p][1].outcome \in {"error", "429"}
    /\ sent[p][2].outcome = "ok"
    /\ Range(sent[p][2].chunk) \ Catalog # {}
    /\ Range(hIds[p]) \ StaleOrAbsent(p) # {}

\* the ids of the records p's call has fetched and not yet written
PendingIds(p) == {docs[p][i].trackId : i \in DOMAIN docs[p]}

\* the store holds under id a record of that trackId, written at or after
\* the lookup of p's call
UpsertedSince(p, id) ==
  /\ id \in DOMAIN cache
  /\ cache[id].trackId = id
  /\ cache[id].updatedAt >= lookupAt[p]

\* C30: every record fetched upstream by an invocation is in the store from
\* its group's write on, through whatever happens to the later groups, with
\* an updatedAt not older than the invocation's lookup; a returned record
\* that was fetched in the invocation is the record the store holds; and
\* every record of the store is kept under its own trackId.
C30_FetchedRecordsAreStored ==
  /\ \A id \in DOMAIN cache : cache[id].trackId = id
  /\ \A p \in Procs :
        op[p] = "hydrate" =>
          /\ \A id \in got[p] \ PendingIds(p) : UpsertedSince(p, id)
          /\ HydrateDone(p) =>
                /\ PendingIds(p) = {}
                /\ \A i \in DOMAIN hres[p] :
                      hres[p][i].trackId \in got[p] =>
                        cache[hres[p][i].trackId] = hres[p][i]

\* C30 witness: the first group of a call was answered and written, the
\* second failed, and the call returned a record of the first group that the
\* store had held before, stale, and holds now, refreshed.
C30_Witness ==
  \E p \in Procs :
    /\ HydrateDone(p)
    /\ Len(sent[p]) = 2
    /\ sent[p][1].outcome = "ok"
    /\ sent[p][2].outcome \in {"error", "429"}
    /\ \E i \in DOMAIN hres[p] :
          /\ hres[p][i].trackId \in got[p]
          /\ hres[p][i].trackId \in DOMAIN cached[p]
          /\ cached[p][hres[p][i].trackId].updatedAt < lookupAt[p]
          /\ UpsertedSince(p, hres[p][i].trackId)

\* the wait a 429 answer with this retry-after header asks for, in ms: the
\* header's seconds, 5 seconds at most, and one second without a header
AdvisedWaitMs(ra) ==
  IF ~IsNum(ra) THEN 1000
  ELSE IF NumOf(ra) <= 5 THEN NumOf(ra) * 1000 ELSE 5000

\* p's call is between a 429 answer and the end of the wait it set
Backing(p) == op[p] = "hydrate" /\ pc[p] = "hyd_sleep"

BeforePersist(p) ==
  /\ EditOp(p)
  /\ pc[p] \notin {"add_images", "rep_images", "done", "idle"}

\* the step raises a failure in p's edit
EditFails(p) == EditOp(p) /\ ret[p].kind # "throw" /\ ret'[p].kind = "throw"

\* C32: the songs of a collection change only in the step in which an edit
\* of that collection makes its songs write, so an edit that goes no further
\* than some point before that write has changed no songs; a failure is
\* raised only before the write and its step changes no collection.  A
\* record of the cache is never removed and keeps its trackId, name and
\* album through every later upsert, its updatedAt never going back; and the
\* records an unfinished edit has upserted are in the cache.
C32_UnfinishedEditLeavesSongsAlone ==
  /\ [][/\ \A s \in DOMAIN sets :
              sets'[s].songs # sets[s].songs =>
                \E w \in Procs : EditPersists(w) /\ arg[w].setId = s
         /\ \A p \in Procs : EditFails(p) => BeforePersist(p) /\ sets' = sets
         /\ \A id \in DOMAIN cache :
              /\ id \in DOMAIN cache'
              /\ cache'[id].trackId = id
              /\ cache'[id].name = cache[id].name
              /\ cache'[id].album = cache[id].album
              /\ cache'[id].updatedAt >= cache[id].updatedAt]_vars
  /\ [](\A p \in Procs :
          EditOp(p) => \A id \in got[p] \ PendingIds(p) : UpsertedSince(p, id))

\* C32 witness: two edits of one collection have each fetched and upserted
\* the same track, neither has reached its songs write, and the collection
\* still holds the songs both loaded.
C32_Witness ==
  \E p \in Procs, q \in Procs :
    /\ p # q
    /\ BeforePersist(p) /\ BeforePersist(q)
    /\ pc[p] \in {"add_set", "rep_set"} /\ pc[q] \in {"add_set", "rep_set"}
    /\ arg[p].setId = arg[q].setId
    /\ got[p] \cap got[q] # {}
    /\ got[p] \cap got[q] \subseteq DOMAIN cache
    /\ sets[arg[p].setId].songs = current[p]
    /\ current[p] = current[q]

(***************************************************************************)
(* Claims about updateFull and updateSetBasic.                             *)
(***************************************************************************)
\* p serves PATCH /sets/:setId/full
FullRequest(p) == "patch" \in DOMAIN arg[p] /\ "ids" \in DOMAIN arg[p]

\* the metadata of a collection document
MetaOf(d) == [name |-> d.name, description |-> d.description, tags |-> d.tags]

\* C33: an updateFull request that has loaded the collection and ended has
\* either succeeded, with the songs it built persisted and the name of its
\* patch stored, or failed and left the metadata and the songs as it found
\* them.
C33_UpdateFullIsAtomic ==
  \A p \in Procs :
    (FullRequest(p) /\ pc[p] = "done" /\ doc[p] # NoData) =>
      IF ret[p].kind = "return"
        THEN /\ sets[arg[p].setId].songs = next[p]
             /\ "name" \in DOMAIN arg[p].patch =>
                   sets[arg[p].setId].name = arg[p].patch.name
        ELSE /\ MetaOf(sets[arg[p].setId]) = MetaOf(doc[p].exists)
             /\ sets[arg[p].setId].songs = doc[p].exists.songs

(***************************************************************************)
(* Claims about the OAuth state of the authorization flow.                 *)
(***************************************************************************)
\* p serves a callback that found its state and went on to the exchange
Proceeded(p) ==
  /\ op[p] = "callback"
  /\ "state" \in DOMAIN arg[p]
  /\ usr[p] # "none"
  /\ pc[p] \in {"cb_exchange", "cb_save", "done"}

\* C34: of the callbacks that present one stored state no two go on to the
\* exchange, and the upstream token endpoint answers at most one exchange for
\* it.
C34_StateConsumedAtMostOnce ==
  /\ \A p \in Procs, q \in Procs :
        (p # q /\ Proceeded(p) /\ Proceeded(q)) => arg[p].state # arg[q].state
  /\ respCtr <= 1

(***************************************************************************)
(* Claims about the images of a collection under concurrent edits.         *)
(***************************************************************************)
\* some addSongs or replaceSongs request on collection s has not ended
EditInFlight(s) ==
  \E p \in Procs :
    /\ EditOp(p)
    /\ pc[p] \notin {"done", "idle"}
    /\ arg[p].setId = s

\* C35: a collection no edit of which is in flight has at most 5 images,
\* and they are the artwork of the first songs with artwork of its persisted
\* list, in order.
C35_ImagesDerivedWhenQuiet ==
  \A s \in DOMAIN sets :
    ~EditInFlight(s) =>
      /\ Len(sets[s].images) <= 5
      /\ ImagesFollow(sets[s].images, sets[s].songs)

(***************************************************************************)
(* Claims about the Credential Store after a refresh that gave no token.   *)
(***************************************************************************)
\* C36: no step of an ensureAccessToken call whose upstream refresh errored,
\* or was answered without an access token, changes the record of its user.
C36_UnusableRefreshLeavesRecord ==
  [][\A p \in Procs :
       (op[p] = "ensure" /\ RefreshUnusable(p) /\ pc'[p] # pc[p]) =>
         tokens'[usr[p]] = tokens[usr[p]]]_vars

(***************************************************************************)
(* Claims about the songs made of hydrated Track Records.                  *)
(***************************************************************************)
\* p's edit has built and written its list
EditWrote(p) ==
  /\ EditOp(p)
  /\ pc[p] \in {"add_images", "rep_images", "done"}
  /\ next[p] # <<>>

\* song sg was made of the hydrated record h, artwork included
MadeOf(sg, h) ==
  /\ sg.id = h.trackId
  /\ sg.title = h.name
  /\ h.album.image # UNDEF => sg.image = h.album.image

\* C37: every record hydrate returned to an edit is in the list the edit
\* wrote as a song with the record's id and title and, when the record has
\* album artwork, that artwork as its image.
C37_HydratedSongCarriesArtwork ==
  \A p \in Procs :
    EditWrote(p) =>
      \A i \in DOMAIN hres[p] :
        \E j \in DOMAIN next[p] : MadeOf(next[p][j], hres[p][i])

(***************************************************************************)
(* Claims about replaceSongs without new ids.                              *)
(***************************************************************************)
\* p's replaceSongs has loaded the list, and every id it was given is, as
\* an id or as a URI, the id of a song of that list
PureReorder(p) ==
  /\ op[p] = "replaceSongs"
  /\ pc[p] \notin {"idle", "edit_auth", "edit_find"}
  /\ ret[p].kind # "throw"
  /\ \A i \in DOMAIN arg[p].ids :
        \E j \in DOMAIN current[p] : current[p][j].id = Normalize(arg[p].ids[i])

\* C38: a replaceSongs that was given only ids of the list it loaded never
\* reads the Credential Store, calls the token endpoint or the catalog, or
\* reads the cache; it goes from the load to its writes and returns; and
\* none of its steps changes the Credential Store or the Metadata Cache.
C38_PureReorderNeedsNoToken ==
  /\ [](\A p \in Procs :
          PureReorder(p) =>
            /\ pc[p] \in {"rep_set", "rep_images", "done"}
            /\ tk[p] = NoData /\ upCalls[p] = 0 /\ ~wrote[p]
            /\ sent[p] = <<>> /\ hIds[p] = <<>> /\ hres[p] = <<>>
            /\ pc[p] = "done" => ret[p].kind = "return")
  /\ [][\A p \in Procs :
          (PureReorder(p) /\ pc'[p] # pc[p]) => tokens' = tokens /\ cache' = cache]_vars

\* C38 witness: the editor, who has no credential, reordered a list of
\* several songs.
C38_Witness ==
  \E p \in Procs :
    /\ PureReorder(p) /\ pc[p] = "done"
    /\ usr[p] = "editor" /\ tokens["editor"] = NoTokens
    /\ ret[p].kind = "return"
    /\ ret[p].val.orderChanged
    /\ Len(ret[p].val.songs) > 1
    /\ ret[p].val.removedCount = 0

(***************************************************************************)
(* Claims about the fields updateSetBasic writes.                          *)
(***************************************************************************)
\* p serves PATCH /sets/:setId and has been answered with the updated set
BasicAnswered(p) ==
  /\ op[p] = "updateSetBasic" /\ ~FullRequest(p)
  /\ pc[p] = "done" /\ ret[p].kind = "return"
  /\ doc[p] # NoData

\* C39: when updateSetBasic has answered, each of name, description and tags
\* that its patch omits is stored as the request found it, and so are the
\* songs of the collection.
C39_PatchChangesOnlyGivenFields ==
  \A p \in Procs :
    BasicAnswered(p) =>
      /\ \A f \in {"name", "description", "tags"} \ DOMAIN arg[p].patch :
            sets[arg[p].setId][f] = doc[p].exists[f]
      /\ sets[arg[p].setId].songs = doc[p].exists.songs

\* the half of C39 about the songs
C39_SongsUntouched ==
  \A p \in Procs :
    BasicAnswered(p) => sets[arg[p].setId].songs = doc[p].exists.songs

(***************************************************************************)
(* Claims about termination.                                               *)
(***************************************************************************)
\* the groups of at most CHUNK_SIZE ids a list of n ids is cut into
GroupsOf(n) == (n + CHUNK_SIZE - 1) \div CHUNK_SIZE

\* C40: when every awaited call is answered, every request that has started
\* ensureAccessToken, getManyWithHydrate, addSongs or replaceSongs is
\* eventually answered with a result or a raised failure; meanwhile it makes
\* at most one upstream token call, and at most one upstream catalog call
\* per group of the ids it looks up, none of them a second call for a group.
C40_InvocationsTerminate ==
  /\ [](\A p \in Procs :
          /\ upCalls[p] <= 1
          /\ Len(sent[p]) <= GroupsOf(Len(missing[p]))
          /\ GroupsOf(Len(missing[p])) <= GroupsOf(Len(hIds[p]))
          /\ \A i \in DOMAIN sent[p], j \in DOMAIN sent[p] :
                sent[p][i].chunk = sent[p][j].chunk => i = j)
  /\ \A p \in Procs :
        (pc[p] \notin {"idle", "done"}) ~> (pc[p] = "done" /\ ret[p].kind \in {"return", "throw"})

\* a replaceSongs request was answered after a refresh of the token and a
\* rate-limited lookup whose timer had to fire
C40_Witness ==
  \E p \in Procs :
    /\ op[p] = "replaceSongs" /\ pc[p] = "done"
    /\ upCalls[p] = 1
    /\ \E i \in DOMAIN sent[p] : sent[p][i].outcome = "429"
    /\ now > 0

====
